---- MODULE Spec2Model ----
(***************************************************************************)
(* PKI site health check (pki_monitor.py, pki_checker.py, ocsp_checker.py, *)
(* ldap_checker.py): the probes, the records they return and the           *)
(* orchestrator that runs the three checkers and logs their records.       *)
(*                                                                         *)
(* Strings are TLC strings; f-strings are concatenations (\o) and str(n)   *)
(* is ToString(n).  The servers, the file system, the sub-processes and    *)
(* the clock are the environment: each probe takes the environment's       *)
(* answer as a parameter and the actions draw it with \E.                  *)
(*                                                                         *)
(* The specifications share the operators that model the code:             *)
(*   SpecProbe    one call of one probe, from every pre-state and for      *)
(*                every answer of the environment (all HTTP codes, all     *)
(*                failures);                                               *)
(*   Spec         one whole run of PKIMonitor.run_all_checks, the          *)
(*                environment answering with one answer per branch of the  *)
(*                probes' code (RunHead, RunDownload, ...);                *)
(*   SpecMain     the same run followed by main's report, with fairness;   *)
(*   SpecSession  runs, summaries and the UI's buttons on one log file;    *)
(*   SpecPair     two PKIMonitor instances on the same log path.           *)
(***************************************************************************)
EXTENDS Integers, Sequences, FiniteSets, TLC

VARIABLES
    pc,        \* where the program is: a line of run_all_checks, or a single probe call
    idx,       \* loop index of the current for-loop (URL being checked, record being logged)
    local,     \* the `results` list local to the running checker / the list being logged
    results,   \* PKIMonitor.results
    log,       \* rows of the CSV log file, in file order
    log_exists, \* whether the log file exists
    success,   \* run_all_checks' `success`
    errors,    \* categories whose except-branch ran ("... finished with an error")
    produced,  \* per category: what its run_checks handed back ("none" before, "raised")
    files,     \* the artifact store: path -> content
    tmpfiles,  \* temporary files that exist
    now,       \* the clock, in seconds
    world,     \* the environment's usual answer during a run: "up" or "down"
    spare,     \* how many more times the environment may answer otherwise
    call,      \* the probe call made last and the environment's answers to it
    ret,       \* what that call returned (or that it raised)
    fx         \* what that call did: requests sent, processes started, files written

vars == <<pc, idx, local, results, log, log_exists, success, errors, produced, files, tmpfiles,
          now, world, spare, call, ret, fx>>

-----------------------------------------------------------------------------
(* Bounds *)

\* Length of the prefix of PDF_URLS that is checked.
NumPdf == 2
\* The clock runs from 0 to MaxTime.
MaxTime == 1
\* In a whole run, the number of answers of the environment that differ
\* from its usual one (a server that is up answering with an error, a
\* malformed reply, a failed write to the log, the clock moving on, ...).
MaxDeviations == 3
\* Appending operations (a run, a manual OCSP check) start only while the
\* log has fewer rows than this.
MaxLogRows == 2
\* How many times in a row the summary is computed over the same records.
MaxSummaries == 2

-----------------------------------------------------------------------------
(* Configuration *)

Url(base, path) == [base |-> base, path |-> path]

\* str(url): the URL as written in the configuration
RECURSIVE JoinPath(_)
JoinPath(p) == IF p = <<>> THEN "" ELSE "/" \o Head(p) \o JoinPath(Tail(p))
UrlStr(u) == u.base \o JoinPath(u.path)

\* The first two configured PDF URLs are the same URL.
ALL_PDF_URLS ==
    << Url("https://repository.eidpki.ee",
           <<"static", "Root%20CP_V%201.1%20-%20signed%2030.05.2025.pdf">>),
       Url("https://repository.eidpki.ee",
           <<"static", "Root%20CP_V%201.1%20-%20signed%2030.05.2025.pdf">>),
       Url("https://repository.eidpki.ee",
           <<"static", "2025%2010%2003%20-%20ZE%20CPS-ID1-ROOT-CA%20v1.3%20-%20Approved.pdf">>),
       Url("https://repository.eidpki.ee",
           <<"static", "2025%2010%2001%20-%20ZE%20CPS-ID1-EID-CA%20v1.3%20-%20Approved.pdf">>),
       Url("https://repository.eidpki.ee",
           <<"static", "2025%2010%2003%20-%20ZE%20TSPS-ID1%20v1.3%20-%20Approved.pdf">>),
       Url("https://repository.eidpki.ee",
           <<"static", "2025%2010%2003%20-%20ZE%20TC-ID1%20v1.3%20-%20Approved.pdf">>),
       Url("https://repository.eidpki.ee",
           <<"static", "2025%2010%2003%20-%20ZE%20TC-ID1-SUB%20v1.3%20-%20Approved.pdf">>),
       Url("https://repository.eidpki.ee",
           <<"static", "2025-10-03-ze-tc-id1-sub-v1.3_PBGB_Estonian%20Approved.pdf">>),
       Url("https://repository.eidpki.ee",
           <<"static", "Technical%20profile%20of%20certificates%20OCSP%20responses%20and%20CRLs_20251001_withoutUAT.pdf">>) >>

Min(a, b) == IF a < b THEN a ELSE b

PDF_URLS == SubSeq(ALL_PDF_URLS, 1, Min(NumPdf, Len(ALL_PDF_URLS)))

CRT_URLS ==
    << Url("https://crt.eidpki.ee", <<"EEGovCA2025.crt">>),
       Url("https://crt.eidpki.ee", <<"ESTEID2025.crt">>) >>

CRL_URLS ==
    << Url("https://crl.eidpki.ee", <<"EEGovCA2025.crl">>),
       Url("https://crl.eidpki.ee", <<"ESTEID2025.crl">>) >>

OCSP_URLS == << Url("https://ocsp.eidpki.ee", <<>>) >>

LDAP_HOST == "ldap.eidpki.ee"
LDAP_BASE == "dc=ldap,dc=eidpki,dc=ee"
LDAP_FILTER == "(objectClass=*)"

\* OCSPChecker.ca_cert = artifacts_dir / "crt" / "ESTEID2025.crt"
CaCert == "crt/ESTEID2025.crt"

\* _timestamp(): strftime("%Y-%m-%dT%H:%M:%SZ") of the clock
Timestamp(t) == "2025-01-01T00:00:0" \o ToString(t) \o "Z"

\* strftime("%Y%m%dT%H%M%SZ") of the clock (file names)
FileStamp(t) == "20250101T00000" \o ToString(t) \o "Z"

-----------------------------------------------------------------------------
(* Records *)

\* The dict the PKI and OCSP probes return (no 'filepath_or_note' key).
Rec(ts, type, url, status, code, ms, hash, note) ==
    [timestamp |-> ts, type |-> type, url_or_host |-> url, status |-> status,
     http_code_or_port |-> code, ms |-> ms, sha256_or_note |-> hash, note |-> note]

\* The outcome of a call: a returned value, or an exception that left the call.
Returned(v) == [raised |-> FALSE, value |-> v]
Raises(text) == [raised |-> TRUE, exc |-> text]

\* What a call did.
NoFx ==
    [requests |-> <<>>, spawned |-> <<>>, tmp_created |-> 0, written |-> {}, printed |-> <<>>]
Req(method, url, range) == [method |-> method, url |-> url, range |-> range]

-----------------------------------------------------------------------------
(* Strings *)

\* str.startswith(prefix), str.endswith(suffix)
StartsWith(str, prefix) ==
    Len(str) >= Len(prefix) /\ SubSeq(str, 1, Len(prefix)) = prefix
EndsWith(str, suffix) ==
    Len(str) >= Len(suffix) /\ SubSeq(str, Len(str) - Len(suffix) + 1, Len(str)) = suffix

\* sub in str
Contains(str, sub) ==
    \E k \in 1..(Len(str) - Len(sub) + 1) : SubSeq(str, k, k + Len(sub) - 1) = sub

\* str.split(sep): the parts of str between the occurrences of sep, taken
\* from the left.
RECURSIVE Split(_, _)
Split(str, sep) ==
    IF ~Contains(str, sep) THEN <<str>>
    ELSE LET k == CHOOSE i \in 1..(Len(str) - Len(sep) + 1) :
                      /\ SubSeq(str, i, i + Len(sep) - 1) = sep
                      /\ \A j \in 1..(i - 1) : SubSeq(str, j, j + Len(sep) - 1) # sep
         IN  <<SubSeq(str, 1, k - 1)>> \o Split(SubSeq(str, k + Len(sep), Len(str)), sep)

\* str.strip(): without the white space at either end
Whitespace == {" ", "\t", "\r", "\n"}
RECURSIVE LStrip(_)
LStrip(str) ==
    IF Len(str) > 0 /\ SubSeq(str, 1, 1) \in Whitespace
    THEN LStrip(SubSeq(str, 2, Len(str))) ELSE str
RECURSIVE RStrip(_)
RStrip(str) ==
    IF Len(str) > 0 /\ SubSeq(str, Len(str), Len(str)) \in Whitespace
    THEN RStrip(SubSeq(str, 1, Len(str) - 1)) ELSE str
Strip(str) == RStrip(LStrip(str))

-----------------------------------------------------------------------------
(* The HTTP environment: urlopen's outcomes *)

\* urlopen returns the response for a 2xx code; any other final code is
\* raised as HTTPError; a connection failure is URLError; a timeout while
\* reading is an OSError; a malformed reply is http.client.BadStatusLine,
\* which is none of URLError, HTTPError, OSError.
ResponseCodes == {200, 204, 206}
ErrorCodes == {403, 404, 405, 500}
NoHeader == "<none>"
ContentTypes == {"application/pdf", NoHeader}

Response(c, ct) == [kind |-> "response", code |-> c, ctype |-> ct]
HTTPError(c) == [kind |-> "HTTPError", code |-> c, ctype |-> NoHeader]
URLError == [kind |-> "URLError", code |-> 0, ctype |-> NoHeader]
Timeout == [kind |-> "timeout", code |-> 0, ctype |-> NoHeader]
HTTPException == [kind |-> "HTTPException", code |-> 0, ctype |-> NoHeader]

\* The answer to a request that is not sent.
NotAsked == [kind |-> "not asked", code |-> 0, ctype |-> NoHeader]

HttpOutcomes ==
    {Response(c, ct) : c \in ResponseCodes, ct \in ContentTypes}
    \cup {HTTPError(c) : c \in ErrorCodes}
    \cup {URLError, Timeout, HTTPException}

\* str(e)
ExcText(o) ==
    CASE o.kind = "HTTPError" -> "HTTP Error " \o ToString(o.code)
      [] o.kind = "URLError" -> "<urlopen error [Errno 111] Connection refused>"
      [] o.kind = "timeout" -> "timed out"
      [] OTHER -> "HTP/1.1 200 OK"    \* str(BadStatusLine(line)): the line received

\* except (URLError, HTTPError, OSError)
Caught(o) == o.kind \in {"HTTPError", "URLError", "timeout"}

\* response.headers.get('Content-Type', 'unknown')
ContentType(o) == IF o.ctype = NoHeader THEN "unknown" ELSE o.ctype

\* Measured durations, int((time.time() - start_time) * 1000)
Durations == {0, 7}

-----------------------------------------------------------------------------
(* PKIChecker: availability check, download, and the two together *)

\* A HEAD-then-GET check with the fallback codes and the success codes as
\* parameters: the faulty variants below are instances of it.
FaultyHttpCheck(type, u, ts, head, get, d, fallback, accepted) ==
    LET url == UrlStr(u)
        headReq == Req("HEAD", url, "")
        getReq == Req("GET", url, "bytes=0-0")
        rec(status, code, note) == Rec(ts, type, url, status, code, ToString(d), "", note)
        result(o) ==
            CASE o.kind = "response" ->
                    Returned(rec(IF o.code \in accepted THEN "ok" ELSE "fail",
                                 ToString(o.code), ""))
              [] Caught(o) -> Returned(rec("fail", "000", ExcText(o)))
              [] OTHER -> Raises(ExcText(o))
    IN  IF head.kind = "HTTPError" /\ head.code \in fallback
        THEN [out |-> result(get), requests |-> <<headReq, getReq>>]
        ELSE [out |-> result(head), requests |-> <<headReq>>]

\* Faulty: falls back to the ranged GET after any HTTP error.
_check_url_accessibility_any_error(u, file_type, ts, head, get, d) ==
    FaultyHttpCheck(file_type \o "_check", u, ts, head, get, d, ErrorCodes, {200, 206})

\* _check_url_accessibility: HEAD, and a ranged GET when HEAD is refused.
\* head and get are the server's answers to the two requests (get is read
\* only when the GET is sent); d is the duration measured on return.
_check_url_accessibility(u, file_type, ts, head, get, d) ==
    LET url == UrlStr(u)
        headReq == Req("HEAD", url, "")
        getReq == Req("GET", url, "bytes=0-0")
        rec(status, code, note) ==
            Rec(ts, file_type \o "_check", url, status, code, ToString(d), "", note)
        answered(o) ==
            rec(IF o.code \in {200, 206} THEN "ok" ELSE "fail", ToString(o.code),
                "Content-Type: " \o ContentType(o))
        failed(o) == rec("fail", "000", ExcText(o))
        after(o, reqs) ==
            IF Caught(o)
            THEN [out |-> Returned(failed(o)), requests |-> reqs]
            ELSE [out |-> Raises(ExcText(o)), requests |-> reqs]
    IN  IF head.kind = "response"
        THEN [out |-> Returned(answered(head)), requests |-> <<headReq>>]
        ELSE IF head.kind = "HTTPError" /\ head.code \in {403, 405}
        THEN IF get.kind = "response"
             THEN [out |-> Returned(answered(get)), requests |-> <<headReq, getReq>>]
             ELSE after(get, <<headReq, getReq>>)
        ELSE after(head, <<headReq>>)

\* os.path.basename(urlparse(url).path)
Basename(u) == IF u.path = <<>> THEN "" ELSE u.path[Len(u.path)]

\* hashlib.sha256(content).hexdigest()
Sha256(content) == "sha256(" \o content \o ")"

\* What can happen on disk once the GET has been answered.
DiskOutcomes == {"ok", "open_fail", "read_oserror", "read_incomplete", "write_fail", "hash_fail"}
Bodies == {"BODY"}
Truncated(body) == "<part of " \o body \o ">"

Download(get, disk, body) == [get |-> get, disk |-> disk, body |-> body]
DownloadOutcomes ==
    {Download(g, "ok", "") : g \in HttpOutcomes \ {Response(c, ct) : c \in ResponseCodes, ct \in ContentTypes}}
    \cup {Download(Response(c, NoHeader), k, b) : c \in ResponseCodes, k \in DiskOutcomes, b \in Bodies}

\* f[path] = content, creating or replacing the file
WriteFile(f, path, content) ==
    [p \in DOMAIN f \cup {path} |-> IF p = path THEN content ELSE f[p]]

\* Faulty: the file is saved under the plain base name, without the time stamp.
_download_full_file_plain_name(u, file_type, output_dir, ts, t, dl, d, f) ==
    LET url == UrlStr(u)
        base_name == IF Basename(u) = "" THEN file_type \o "_file" ELSE Basename(u)
        filename == base_name
        filepath == output_dir \o "/" \o filename
        getReq == Req("GET", url, "")
        rec(status, code, hash, note) ==
            Rec(ts, file_type \o "_download", url, status, code, ToString(d), hash, note)
        failed(text) == Returned(rec("fail", "000", "", text))
    IN  IF dl.get.kind # "response"
        THEN [out |-> IF Caught(dl.get) THEN failed(ExcText(dl.get))
                      ELSE Raises(ExcText(dl.get)),
              requests |-> <<getReq>>, files |-> f, written |-> {}]
        ELSE CASE dl.disk = "open_fail" ->
                    [out |-> failed("[Errno 13] Permission denied: " \o filepath),
                     requests |-> <<getReq>>, files |-> f, written |-> {}]
               [] dl.disk = "read_oserror" ->
                    [out |-> failed("timed out"),
                     requests |-> <<getReq>>, files |-> WriteFile(f, filepath, ""),
                     written |-> {filepath}]
               [] dl.disk = "read_incomplete" ->
                    [out |-> Raises("IncompleteRead"),
                     requests |-> <<getReq>>, files |-> WriteFile(f, filepath, ""),
                     written |-> {filepath}]
               [] dl.disk = "write_fail" ->
                    [out |-> failed("[Errno 28] No space left on device"),
                     requests |-> <<getReq>>,
                     files |-> WriteFile(f, filepath, Truncated(dl.body)),
                     written |-> {filepath}]
               [] dl.disk = "hash_fail" ->
                    [out |-> failed("[Errno 5] Input/output error: " \o filepath),
                     requests |-> <<getReq>>, files |-> WriteFile(f, filepath, dl.body),
                     written |-> {filepath}]
               [] OTHER ->
                    [out |-> Returned(rec("ok", "200", Sha256(dl.body), "")),
                     requests |-> <<getReq>>, files |-> WriteFile(f, filepath, dl.body),
                     written |-> {filepath}]

\* _download_full_file: GET the resource, write it under
\* <output_dir>/<stamp>-<basename>, hash the file.  t is the clock read
\* for the file name, f the artifact store before the call.
_download_full_file(u, file_type, output_dir, ts, t, dl, d, f) ==
    LET url == UrlStr(u)
        base_name == IF Basename(u) = "" THEN file_type \o "_file" ELSE Basename(u)
        filename == FileStamp(t) \o "-" \o base_name
        filepath == output_dir \o "/" \o filename
        getReq == Req("GET", url, "")
        rec(status, code, hash, note) ==
            Rec(ts, file_type \o "_download", url, status, code, ToString(d), hash, note)
        failed(text) == Returned(rec("fail", "000", "", text))
    IN  IF dl.get.kind # "response"
        THEN [out |-> IF Caught(dl.get) THEN failed(ExcText(dl.get))
                      ELSE Raises(ExcText(dl.get)),
              requests |-> <<getReq>>, files |-> f, written |-> {}]
        ELSE CASE dl.disk = "open_fail" ->
                    [out |-> failed("[Errno 13] Permission denied: " \o filepath),
                     requests |-> <<getReq>>, files |-> f, written |-> {}]
               [] dl.disk = "read_oserror" ->
                    [out |-> failed("timed out"),
                     requests |-> <<getReq>>, files |-> WriteFile(f, filepath, ""),
                     written |-> {filepath}]
               [] dl.disk = "read_incomplete" ->
                    [out |-> Raises("IncompleteRead"),
                     requests |-> <<getReq>>, files |-> WriteFile(f, filepath, ""),
                     written |-> {filepath}]
               [] dl.disk = "write_fail" ->
                    [out |-> failed("[Errno 28] No space left on device"),
                     requests |-> <<getReq>>,
                     files |-> WriteFile(f, filepath, Truncated(dl.body)),
                     written |-> {filepath}]
               [] dl.disk = "hash_fail" ->
                    [out |-> failed("[Errno 5] Input/output error: " \o filepath),
                     requests |-> <<getReq>>, files |-> WriteFile(f, filepath, dl.body),
                     written |-> {filepath}]
               [] OTHER ->
                    [out |-> Returned(rec("ok", "200", Sha256(dl.body), "")),
                     requests |-> <<getReq>>, files |-> WriteFile(f, filepath, dl.body),
                     written |-> {filepath}]

\* Faulty: the record of a skipped download carries a code of its own.
NotAccessible_coded(u, file_type, ts) ==
    Rec(ts, file_type \o "_download", UrlStr(u), "fail", "404", "0", "", "URL not accessible")

\* The record _download_file appends when the availability check failed.
NotAccessible(u, file_type, ts) ==
    Rec(ts, file_type \o "_download", UrlStr(u), "fail", "000", "0", "", "URL not accessible")

\* Faulty: downloads whatever the availability check said.
_download_file_ungated(u, file_type, output_dir, ts, t, head, get, dl, d, f) ==
    LET chk == _check_url_accessibility(u, file_type, ts, head, get, d)
        full == _download_full_file(u, file_type, output_dir, ts, t, dl, d, f)
    IN  IF chk.out.raised
        THEN [out |-> chk.out, results |-> <<>>, requests |-> chk.requests,
              files |-> f, written |-> {}]
        ELSE [out |-> IF full.out.raised THEN full.out
                      ELSE Returned(<<chk.out.value, full.out.value>>),
              results |-> IF full.out.raised THEN <<chk.out.value>>
                          ELSE <<chk.out.value, full.out.value>>,
              requests |-> chk.requests \o full.requests,
              files |-> full.files, written |-> full.written]

\* Faulty: appends no record for a download that is skipped.
_download_file_skips_quietly(u, file_type, output_dir, ts, t, head, get, dl, d, f) ==
    LET chk == _check_url_accessibility(u, file_type, ts, head, get, d)
        full == _download_full_file(u, file_type, output_dir, ts, t, dl, d, f)
    IN  IF chk.out.raised
        THEN [out |-> chk.out, results |-> <<>>, requests |-> chk.requests,
              files |-> f, written |-> {}]
        ELSE IF chk.out.value.status = "ok"
        THEN [out |-> IF full.out.raised THEN full.out
                      ELSE Returned(<<chk.out.value, full.out.value>>),
              results |-> IF full.out.raised THEN <<chk.out.value>>
                          ELSE <<chk.out.value, full.out.value>>,
              requests |-> chk.requests \o full.requests,
              files |-> full.files, written |-> full.written]
        ELSE [out |-> Returned(<<chk.out.value>>), results |-> <<chk.out.value>>,
              requests |-> chk.requests, files |-> f, written |-> {}]

\* _download_file: the availability check, then the download if it was 'ok'.
\* Returns the list of two records, or raises what either step raised;
\* `results` is its local list when it is left.
_download_file(u, file_type, output_dir, ts, t, head, get, dl, d, f) ==
    LET chk == _check_url_accessibility(u, file_type, ts, head, get, d)
        full == _download_full_file(u, file_type, output_dir, ts, t, dl, d, f)
    IN  IF chk.out.raised
        THEN [out |-> chk.out, results |-> <<>>, requests |-> chk.requests,
              files |-> f, written |-> {}]
        ELSE IF chk.out.value.status = "ok"
        THEN [out |-> IF full.out.raised THEN full.out
                      ELSE Returned(<<chk.out.value, full.out.value>>),
              results |-> IF full.out.raised THEN <<chk.out.value>>
                          ELSE <<chk.out.value, full.out.value>>,
              requests |-> chk.requests \o full.requests,
              files |-> full.files, written |-> full.written]
        ELSE [out |-> Returned(<<chk.out.value, NotAccessible(u, file_type, ts)>>),
              results |-> <<chk.out.value, NotAccessible(u, file_type, ts)>>,
              requests |-> chk.requests, files |-> f, written |-> {}]

-----------------------------------------------------------------------------
(* OCSPChecker *)

\* Faulty: every 2xx code counts as success.
_check_ocsp_http_any_2xx(u, ts, head, get, d) ==
    FaultyHttpCheck("ocsp_http_check", u, ts, head, get, d, {403, 405}, ResponseCodes)

\* Faulty: falls back to the ranged GET after 405 only.
_check_ocsp_http_405_only(u, ts, head, get, d) ==
    FaultyHttpCheck("ocsp_http_check", u, ts, head, get, d, {405}, {200, 206})

\* _check_ocsp_http: HEAD, and a ranged GET when HEAD is refused.
_check_ocsp_http(u, ts, head, get, d) ==
    LET url == UrlStr(u)
        headReq == Req("HEAD", url, "")
        getReq == Req("GET", url, "bytes=0-0")
        rec(status, code, note) ==
            Rec(ts, "ocsp_http_check", url, status, code, ToString(d), "", note)
        answered(o) ==
            rec(IF o.code \in {200, 206} THEN "ok" ELSE "fail", ToString(o.code), "")
        failed(o) == rec("fail", "000", ExcText(o))
    IN  CASE head.kind = "response" ->
                [out |-> Returned(answered(head)), requests |-> <<headReq>>]
          [] head.kind = "HTTPError" /\ head.code \in {403, 405} ->
                [out |-> CASE get.kind = "response" -> Returned(answered(get))
                           [] Caught(get) -> Returned(failed(get))
                           [] OTHER -> Raises(ExcText(get)),
                 requests |-> <<headReq, getReq>>]
          [] Caught(head) ->
                [out |-> Returned(failed(head)), requests |-> <<headReq>>]
          [] OTHER ->
                [out |-> Raises(ExcText(head)), requests |-> <<headReq>>]

\* The text `openssl ocsp -resp_text` prints: a sequence of lines.  A line
\* is its label ("Cert Status:", "Revocation Time:", "Revocation Reason:",
\* or "" for any other line) and the text after the label, stripped.
Line(label, value) == [label |-> label, value |-> value]

None == "<None>"

\* The value of the last line carrying the label, None when there is none.
LastValue(lines, label) ==
    LET I == {i \in 1..Len(lines) : lines[i].label = label}
    IN  IF I = {} THEN None
        ELSE lines[CHOOSE i \in I : \A j \in I : j <= i].value

\* Faulty: revocation lines without a status line read as 'revoked'.
_parse_ocsp_response_infers_revoked(response) ==
    LET status == LastValue(response, "Cert Status:")
        revocation_time == LastValue(response, "Revocation Time:")
    IN  IF status = None
        THEN IF revocation_time # None
             THEN "revoked, Revocation Time: " \o revocation_time
             ELSE "unknown"
        ELSE status

\* _parse_ocsp_response, from the labelled lines on
_parse_ocsp_response(response) ==
    LET status == LastValue(response, "Cert Status:")
        revocation_time == LastValue(response, "Revocation Time:")
        revocation_reason == LastValue(response, "Revocation Reason:")
    IN  IF status = None THEN "unknown"
        ELSE IF revocation_time # None /\ revocation_time # ""
        THEN IF revocation_reason # None /\ revocation_reason # ""
             THEN status \o ", Revocation Time: " \o revocation_time
                         \o ", Reason: " \o revocation_reason
             ELSE status \o ", Revocation Time: " \o revocation_time
        ELSE status

\* The loop body of _parse_ocsp_response for one line of the text: the
\* first of the three labels that occurs anywhere in the line decides, and
\* the value is what follows its first occurrence (up to its next one),
\* stripped.
Scan(line) ==
    IF Contains(line, "Cert Status:")
    THEN Line("Cert Status:", Strip(Split(line, "Cert Status:")[2]))
    ELSE IF Contains(line, "Revocation Time:")
    THEN Line("Revocation Time:", Strip(Split(line, "Revocation Time:")[2]))
    ELSE IF Contains(line, "Revocation Reason:")
    THEN Line("Revocation Reason:", Strip(Split(line, "Revocation Reason:")[2]))
    ELSE Line("", line)

\* response.split('\n'), line by line through the loop body
Lines(response) ==
    LET lines == Split(response, "\n")
    IN  [i \in 1..Len(lines) |-> Scan(lines[i])]

\* _parse_ocsp_response, from the text on
ParseText(response) == _parse_ocsp_response(Lines(response))

\* The text of the lines, as written to the temporary file.
RECURSIVE Text(_)
Text(lines) ==
    IF lines = <<>> THEN ""
    ELSE Head(lines).label \o " " \o Head(lines).value \o "\n" \o Text(Tail(lines))

\* The environment of one OCSP exchange: creating the temporary file,
\* running openssl, writing its output, removing the temporary file.
Exchange(kind, stdout, stderr, unlink) ==
    [kind |-> kind, stdout |-> stdout, stderr |-> stderr, unlink |-> unlink]

\* The exchange that does not take place.
NoExchange == Exchange("none", <<>>, "", "removed")

Good == <<Line("", "Response verify OK"), Line("Cert Status:", "good")>>
Revoked == <<Line("Cert Status:", "revoked"),
             Line("Revocation Time:", "20240101000000Z"),
             Line("Revocation Reason:", "keyCompromise")>>
RevokedNoReason == <<Line("Cert Status:", "revoked"),
                     Line("Revocation Time:", "20240101000000Z")>>
ReasonNoTime == <<Line("Cert Status:", "revoked"),
                  Line("Revocation Reason:", "keyCompromise")>>
NoStatus == <<Line("", "Responder Error: unauthorized")>>

Responses == {Good, Revoked, RevokedNoReason, ReasonNoTime, NoStatus}

ExchangeOutcomes ==
    {Exchange("exit0", r, "", k) : r \in Responses, k \in {"removed", "unlink_fail"}}
    \cup {Exchange(x, <<>>, "Error querying OCSP responder", k) :
            x \in {"exit1", "TimeoutExpired", "FileNotFoundError", "write_fail"},
            k \in {"removed", "unlink_fail"}}
    \cup {Exchange("mkstemp_fail", <<>>, "", "removed")}

\* NamedTemporaryFile(delete=False, suffix='.txt').name
NewTmp(tmp) == "/tmp/tmp" \o ToString(Cardinality(tmp)) \o ".txt"

\* Faulty: runs openssl without looking for the issuer certificate.
check_ocsp_by_serial_unchecked(u, issuer_cert, serial, result_type, ts, x, d, f, tmp) ==
    [out |-> Returned(Rec(ts, result_type, UrlStr(u), "fail", "000", ToString(d), "",
                          "OpenSSL error: " \o x.stderr)),
     spawned |-> << <<"openssl", "ocsp", "-url", UrlStr(u), "-issuer", issuer_cert,
                      "-serial", serial, "-resp_text", "-noverify", "-timeout", "10">> >>,
     tmp_created |-> 1, tmpfiles |-> tmp]

\* Faulty: a certificate that is not good makes the probe fail.
check_ocsp_by_serial_revoked_fails(u, issuer_cert, serial, result_type, ts, x, d, f, tmp) ==
    LET url == UrlStr(u)
        rec(status, code, hash, note) ==
            Rec(ts, result_type, url, status, code, ToString(d), hash, note)
        failed(note) == Returned(rec("fail", "000", "", note))
        cmd == <<"openssl", "ocsp", "-url", url, "-issuer", issuer_cert, "-serial", serial,
                 "-resp_text", "-noverify", "-timeout", "10">>
        tmp_path == NewTmp(tmp)
        left == IF x.unlink = "removed" THEN tmp ELSE tmp \cup {tmp_path}
        ran(out) == [out |-> out, spawned |-> <<cmd>>, tmp_created |-> 1, tmpfiles |-> left]
    IN  IF issuer_cert \notin DOMAIN f
        THEN [out |-> failed("Issuer certificate not found: " \o issuer_cert),
              spawned |-> <<>>, tmp_created |-> 0, tmpfiles |-> tmp]
        ELSE CASE x.kind = "mkstemp_fail" ->
                    [out |-> failed("[Errno 28] No space left on device"),
                     spawned |-> <<>>, tmp_created |-> 0, tmpfiles |-> tmp]
               [] x.kind = "TimeoutExpired" -> ran(failed("Request timeout"))
               [] x.kind = "FileNotFoundError" ->
                    ran(failed("[Errno 2] No such file or directory: 'openssl'"))
               [] x.kind = "write_fail" ->
                    ran(failed("[Errno 28] No space left on device"))
               [] x.kind = "exit0" /\ LastValue(x.stdout, "Cert Status:") # "good" ->
                    ran(failed(_parse_ocsp_response(x.stdout)))
               [] x.kind = "exit0" ->
                    ran(Returned(rec("ok", "200", Sha256(Text(x.stdout) \o x.stderr),
                                     _parse_ocsp_response(x.stdout)
                                         \o " (serial: " \o serial \o ")")))
               [] OTHER -> ran(failed("OpenSSL error: " \o x.stderr))

\* Faulty: the temporary file is not removed when openssl times out.
check_ocsp_by_serial_leaks_on_timeout(u, issuer_cert, serial, result_type, ts, x, d, f, tmp) ==
    LET url == UrlStr(u)
        rec(status, code, hash, note) ==
            Rec(ts, result_type, url, status, code, ToString(d), hash, note)
        failed(note) == Returned(rec("fail", "000", "", note))
        cmd == <<"openssl", "ocsp", "-url", url, "-issuer", issuer_cert, "-serial", serial,
                 "-resp_text", "-noverify", "-timeout", "10">>
        tmp_path == NewTmp(tmp)
        left == IF x.unlink = "removed" THEN tmp ELSE tmp \cup {tmp_path}
        ran(out) == [out |-> out, spawned |-> <<cmd>>, tmp_created |-> 1, tmpfiles |-> left]
    IN  IF issuer_cert \notin DOMAIN f
        THEN [out |-> failed("Issuer certificate not found: " \o issuer_cert),
              spawned |-> <<>>, tmp_created |-> 0, tmpfiles |-> tmp]
        ELSE CASE x.kind = "mkstemp_fail" ->
                    [out |-> failed("[Errno 28] No space left on device"),
                     spawned |-> <<>>, tmp_created |-> 0, tmpfiles |-> tmp]
               [] x.kind = "TimeoutExpired" ->
                    [out |-> failed("Request timeout"), spawned |-> <<cmd>>,
                     tmp_created |-> 1, tmpfiles |-> tmp \cup {tmp_path}]
               [] x.kind = "FileNotFoundError" ->
                    ran(failed("[Errno 2] No such file or directory: 'openssl'"))
               [] x.kind = "write_fail" ->
                    ran(failed("[Errno 28] No space left on device"))
               [] x.kind = "exit0" ->
                    ran(Returned(rec("ok", "200", Sha256(Text(x.stdout) \o x.stderr),
                                     _parse_ocsp_response(x.stdout)
                                         \o " (serial: " \o serial \o ")")))
               [] OTHER -> ran(failed("OpenSSL error: " \o x.stderr))

\* check_ocsp_by_serial: the issuer must exist; then openssl is run, its
\* output is written to a temporary file and parsed.  f is the artifact
\* store, tmp the temporary files that exist.
check_ocsp_by_serial(u, issuer_cert, serial, result_type, ts, x, d, f, tmp) ==
    LET url == UrlStr(u)
        rec(status, code, hash, note) ==
            Rec(ts, result_type, url, status, code, ToString(d), hash, note)
        failed(note) == Returned(rec("fail", "000", "", note))
        cmd == <<"openssl", "ocsp", "-url", url, "-issuer", issuer_cert, "-serial", serial,
                 "-resp_text", "-noverify", "-timeout", "10">>
        tmp_path == NewTmp(tmp)
        left == IF x.unlink = "removed" THEN tmp ELSE tmp \cup {tmp_path}
        ran(out) == [out |-> out, spawned |-> <<cmd>>, tmp_created |-> 1, tmpfiles |-> left]
    IN  IF issuer_cert \notin DOMAIN f
        THEN [out |-> failed("Issuer certificate not found: " \o issuer_cert),
              spawned |-> <<>>, tmp_created |-> 0, tmpfiles |-> tmp]
        ELSE CASE x.kind = "mkstemp_fail" ->
                    [out |-> failed("[Errno 28] No space left on device"),
                     spawned |-> <<>>, tmp_created |-> 0, tmpfiles |-> tmp]
               [] x.kind = "TimeoutExpired" -> ran(failed("Request timeout"))
               [] x.kind = "FileNotFoundError" ->
                    ran(failed("[Errno 2] No such file or directory: 'openssl'"))
               [] x.kind = "write_fail" ->
                    ran(failed("[Errno 28] No space left on device"))
               [] x.kind = "exit0" ->
                    ran(Returned(rec("ok", "200", Sha256(Text(x.stdout) \o x.stderr),
                                     _parse_ocsp_response(x.stdout)
                                         \o " (serial: " \o serial \o ")")))
               [] OTHER -> ran(failed("OpenSSL error: " \o x.stderr))

\* _check_ocsp_status: the default self-check, serial 0xAAA against ca_cert.
_check_ocsp_status(u, ts, x, d, f, tmp) ==
    IF CaCert \notin DOMAIN f
    THEN [out |-> Returned(Rec(ts, "ocsp_status", UrlStr(u), "fail", "000", "0", "",
                               "CA certificate not found: " \o CaCert)),
          spawned |-> <<>>, tmp_created |-> 0, tmpfiles |-> tmp]
    ELSE check_ocsp_by_serial(u, CaCert, "0xAAA", "ocsp_status", ts, x, d, f, tmp)

-----------------------------------------------------------------------------
(* LDAPChecker *)

\* Faulty: the LDAP records carry a hash.
LdapRec_hashed(ts, type, url, status, code, ms, note) ==
    [timestamp |-> ts, type |-> type, url_or_host |-> url, status |-> status,
     http_code_or_port |-> code, ms |-> ms, filepath_or_note |-> "",
     sha256_or_note |-> Sha256(url), note |-> note]

\* The dict the LDAP probes return (with the 'filepath_or_note' key).
LdapRec(ts, type, url, status, code, ms, note) ==
    [timestamp |-> ts, type |-> type, url_or_host |-> url, status |-> status,
     http_code_or_port |-> code, ms |-> ms, filepath_or_note |-> "",
     sha256_or_note |-> "", note |-> note]

\* connect_ex returns 0, or an errno (refused, timed out); resolving the
\* host can raise (gaierror).
ConnectOutcomes == {"connected", "refused", "timed_out", "gaierror"}

\* Faulty: a failed connect keeps its measured duration.
_check_port_keeps_duration(host, port, ts, conn, d) ==
    Returned(LdapRec(ts, "ldap_port", host, IF conn = "connected" THEN "ok" ELSE "fail",
                     ToString(port), ToString(d), ""))

\* _check_port
_check_port(host, port, ts, conn, d) ==
    CASE conn = "connected" ->
            Returned(LdapRec(ts, "ldap_port", host, "ok", ToString(port), ToString(d), ""))
      [] conn \in {"refused", "timed_out"} ->
            Returned(LdapRec(ts, "ldap_port", host, "fail", ToString(port), "0", ""))
      [] OTHER ->
            Returned(LdapRec(ts, "ldap_port", host, "fail", ToString(port), ToString(d),
                             "[Errno -2] Name or service not known"))

\* ldapsearch: exit code 0 with so many 'dn:' lines, a non-zero exit code,
\* no answer within TIMEOUT, or the program cannot be started.
Search(kind, dn_lines) == [kind |-> kind, dn_lines |-> dn_lines]
SearchOutcomes ==
    {Search("exit0", n) : n \in 0..2}
    \cup {Search(k, 0) : k \in {"exit1", "TimeoutExpired", "FileNotFoundError"}}

\* protocol.upper()
Upper(protocol) == IF protocol = "ldaps" THEN "LDAPS" ELSE "LDAP"

\* Faulty: a search that finds no entry is a failure.
_check_ldap_query_empty_fails(protocol, ts, s, d) ==
    LET url == protocol \o "://" \o LDAP_HOST
        rec(status, note) ==
            LdapRec(ts, "ldap_search", url, status, Upper(protocol), ToString(d), note)
        cmd == <<"ldapsearch", "-x", "-H", url, "-b", LDAP_BASE, "-s", "one", LDAP_FILTER, "cn">>
        out == CASE s.kind = "exit0" ->
                       IF s.dn_lines > 0 THEN rec("ok", "found") ELSE rec("fail", "empty")
                 [] s.kind = "exit1" ->
                       rec("fail", "ldapsearch error: " \o "Can't contact LDAP server (-1)")
                 [] s.kind = "TimeoutExpired" -> rec("fail", "Query timeout")
                 [] OTHER -> rec("fail", "[Errno 2] No such file or directory: 'ldapsearch'")
    IN  [out |-> Returned(out), spawned |-> <<cmd>>]

\* _check_ldap_query
_check_ldap_query(protocol, ts, s, d) ==
    LET url == protocol \o "://" \o LDAP_HOST
        rec(status, note) ==
            LdapRec(ts, "ldap_search", url, status, Upper(protocol), ToString(d), note)
        cmd == <<"ldapsearch", "-x", "-H", url, "-b", LDAP_BASE, "-s", "one", LDAP_FILTER, "cn">>
        out == CASE s.kind = "exit0" ->
                       rec("ok", IF s.dn_lines > 0 THEN "found" ELSE "empty")
                 [] s.kind = "exit1" ->
                       rec("fail", "ldapsearch error: " \o "Can't contact LDAP server (-1)")
                 [] s.kind = "TimeoutExpired" -> rec("fail", "Query timeout")
                 [] OTHER -> rec("fail", "[Errno 2] No such file or directory: 'ldapsearch'")
    IN  [out |-> Returned(out), spawned |-> <<cmd>>]

-----------------------------------------------------------------------------
(* PKIMonitor *)

\* The header row _init_csv_log writes.
HEADER == <<"timestamp", "type", "url_or_host", "status", "http_code_or_port", "ms",
            "filepath_or_note", "sha256_or_note", "note">>

\* result.get(key, '')
Get(result, key) == IF key \in DOMAIN result THEN result[key] ELSE ""

\* The row _log_result writes for a record.
Row(result) == [i \in 1..Len(HEADER) |-> Get(result, HEADER[i])]

\* print_summary: the lines it prints for the records (without the emoji
\* that starts each line).
print_summary(records) ==
    LET by_prefix(prefix) ==
            SelectSeq(records, LAMBDA r : StartsWith(Get(r, "type"), prefix))
        by_type(type) == SelectSeq(records, LAMBDA r : Get(r, "type") = type)
        ok(list) == Len(SelectSeq(list, LAMBDA r : Get(r, "status") = "ok"))
        ratio(list) == ToString(ok(list)) \o "/" \o ToString(Len(list)) \o " OK"
    IN  << "PDF:  " \o ratio(by_prefix("pdf_")),
           "CRT:  " \o ratio(by_prefix("crt_")),
           "CRL:  " \o ratio(by_prefix("crl_")),
           "OCSP: " \o ratio(by_prefix("ocsp_")),
           "LDAP: " \o ToString(ok(by_type("ldap_search"))) \o " searches OK, "
                    \o ToString(ok(by_type("ldap_port"))) \o " ports OK" >>

Categories == <<"pki", "ocsp", "ldap">>

\* The URLs PKIChecker.run_checks walks through, in its order.
Job(u, file_type) == [url |-> u, file_type |-> file_type, output_dir |-> file_type]
PkiJobs ==
    [i \in 1..Len(PDF_URLS) |-> Job(PDF_URLS[i], "pdf")]
    \o [i \in 1..Len(CRT_URLS) |-> Job(CRT_URLS[i], "crt")]
    \o [i \in 1..Len(CRL_URLS) |-> Job(CRL_URLS[i], "crl")]

\* The calls OCSPChecker.run_checks makes: per URL, the endpoint check and
\* then the status check.
OcspSteps == 2 * Len(OCSP_URLS)
OcspUrl(i) == OCSP_URLS[(i + 1) \div 2]

\* Faulty: the searches before the port checks.
LdapSteps_searches_first ==
    << [fn |-> "_check_ldap_query", protocol |-> "ldap"],
       [fn |-> "_check_ldap_query", protocol |-> "ldaps"],
       [fn |-> "_check_port", port |-> 389], [fn |-> "_check_port", port |-> 636] >>

\* The calls LDAPChecker.run_checks makes.
LdapSteps ==
    << [fn |-> "_check_port", port |-> 389], [fn |-> "_check_port", port |-> 636],
       [fn |-> "_check_ldap_query", protocol |-> "ldap"],
       [fn |-> "_check_ldap_query", protocol |-> "ldaps"] >>

NotRun == [state |-> "none", value |-> <<>>]
Raised == [state |-> "raised", value |-> <<>>]
Handed(list) == [state |-> "returned", value |-> list]

\* The block of run_all_checks that follows the block of category c.
After(c) == CASE c = "pki" -> "ocsp" [] c = "ocsp" -> "ldap" [] OTHER -> "done"

\* Faulty: a fault ends the run.
Except_ends_run(c) ==
    /\ success' = FALSE
    /\ errors' = errors \cup {c}
    /\ pc' = "done"
    /\ idx' = 1
    /\ local' = <<>>

\* Faulty: a fault is reported but the run still counts as a success.
Except_keeps_success(c) ==
    /\ success' = success
    /\ errors' = errors \cup {c}
    /\ pc' = After(c)
    /\ idx' = 1
    /\ local' = <<>>

\* Faulty: a fault is not caught and leaves run_all_checks.
Except_propagates(c) ==
    /\ success' = FALSE
    /\ errors' = errors \cup {c}
    /\ pc' = "raised"
    /\ idx' = 1
    /\ local' = <<>>

\* Faulty: after a fault, what the checker had gathered is logged all the same.
Except_logs_partial(c) ==
    /\ success' = FALSE
    /\ errors' = errors \cup {c}
    /\ pc' = IF local = <<>> THEN After(c) ELSE c \o "_log"
    /\ idx' = 1
    /\ local' = local

\* The except-branch of category c's block: report, success = False, go on
\* with the next block.
Except(c) ==
    /\ success' = FALSE
    /\ errors' = errors \cup {c}
    /\ pc' = After(c)
    /\ idx' = 1
    /\ local' = <<>>

-----------------------------------------------------------------------------
(* The environment of a whole run *)

\* The answers the environment gives during a run.
RunHead == {Response(200, NoHeader), URLError, HTTPException}
RunGet == {Response(206, NoHeader), URLError}
RunDownload == {Download(Response(200, NoHeader), "ok", "BODY"), Download(URLError, "ok", "")}
RunDurations == {7}
RunExchange == {Exchange("exit0", Good, "", "removed"),
                Exchange("exit1", <<>>, "Error querying OCSP responder", "removed")}
RunConnect == {"connected", "refused"}
RunSearch == {Search("exit0", 1), Search("TimeoutExpired", 0)}
\* open(self.log_csv, 'a') and writerow succeed, or raise OSError
LogWrites == {"written", "OSError"}

\* Its usual answers: every service up, or every service down.
Usual(w) ==
    IF w = "up"
    THEN [head |-> Response(200, NoHeader), get |-> Response(206, NoHeader),
          dl |-> Download(Response(200, NoHeader), "ok", "BODY"),
          x |-> Exchange("exit0", Good, "", "removed"),
          conn |-> "connected", s |-> Search("exit0", 1), w |-> "written"]
    ELSE [head |-> URLError, get |-> URLError,
          dl |-> Download(URLError, "ok", ""),
          x |-> Exchange("exit1", <<>>, "Error querying OCSP responder", "removed"),
          conn |-> "refused", s |-> Search("TimeoutExpired", 0), w |-> "written"]

\* 0 for the usual answer, 1 for another one; 0 for no answer.
Off(kind, answer) == IF answer = Usual(world)[kind] THEN 0 ELSE 1
OffHttp(kind, answer) == IF answer.kind = "not asked" THEN 0 ELSE Off(kind, answer)
OffDownload(dl) == IF dl.get.kind = "not asked" THEN 0 ELSE Off("dl", dl)

\* The answers to draw from for a request that may or may not be sent, and
\* the check that the one drawn is NotAsked exactly if it was not sent.
Maybe(answers) == answers \cup {NotAsked}
MaybeDownload(answers) == answers \cup {Download(NotAsked, "ok", "")}
SentRange(requests) == \E i \in 1..Len(requests) : requests[i].range # ""
SentFull(requests) ==
    \E i \in 1..Len(requests) : requests[i].method = "GET" /\ requests[i].range = ""

\* The environment gives `cost` unusual answers in this step.
Spend(cost) ==
    /\ cost <= spare
    /\ spare' = spare - cost

-----------------------------------------------------------------------------
(* run_all_checks, step by step *)

\* Before run_all_checks: PKIMonitor has been constructed, the log holds
\* its header, the artifact store may hold the CA certificate.
Init ==
    /\ pc = "pki"
    /\ idx = 1
    /\ local = <<>>
    /\ results = <<>>
    /\ log = <<HEADER>>
    /\ log_exists = TRUE
    /\ success = TRUE
    /\ errors = {}
    /\ produced = [c \in {"pki", "ocsp", "ldap"} |-> NotRun]
    /\ files \in {<<>>, [p \in {CaCert} |-> "CERT"]}
    /\ tmpfiles = {}
    /\ now = 0
    /\ world \in {"up", "down"}
    /\ spare = MaxDeviations
    /\ call = [fn |-> "none"]
    /\ ret = Returned(<<>>)
    /\ fx = NoFx

\* One iteration of PKIChecker.run_checks' loops: _download_file(url, ...).
\* The whole run reads the same second of the clock.
PkiDownloadFile ==
    /\ pc = "pki"
    /\ idx <= Len(PkiJobs)
    /\ \E head \in RunHead, get \in Maybe(RunGet), dl \in MaybeDownload(RunDownload),
          d \in RunDurations :
          LET j == PkiJobs[idx]
              t == now
              r == _download_file(j.url, j.file_type, j.output_dir, Timestamp(now), t,
                                  head, get, dl, d, files)
          IN  /\ SentRange(r.requests) <=> get # NotAsked
              /\ SentFull(r.requests) <=> dl.get # NotAsked
              /\ Spend(Off("head", head) + OffHttp("get", get) + OffDownload(dl))
              /\ call' = [fn |-> "_download_file", url |-> j.url, file_type |-> j.file_type,
                          output_dir |-> j.output_dir, head |-> head, get |-> get, dl |-> dl,
                          d |-> d, t |-> t, ts |-> Timestamp(now), store |-> files]
              /\ ret' = r.out
              /\ fx' = [NoFx EXCEPT !.requests = r.requests, !.written = r.written]
              /\ files' = r.files
              /\ now' = t
              /\ IF r.out.raised
                 THEN /\ Except("pki")
                      /\ produced' = [produced EXCEPT !["pki"] = Raised]
                 ELSE /\ local' = local \o r.out.value
                      /\ idx' = idx + 1
                      /\ UNCHANGED <<pc, success, errors, produced>>
    /\ UNCHANGED <<results, log, log_exists, tmpfiles, world>>

\* One call of OCSPChecker.run_checks' loop body: the endpoint check.
OcspHttp ==
    /\ pc = "ocsp"
    /\ idx <= OcspSteps
    /\ idx % 2 = 1
    /\ \E head \in RunHead, get \in Maybe(RunGet), d \in RunDurations :
          LET u == OcspUrl(idx)
              r == _check_ocsp_http(u, Timestamp(now), head, get, d)
          IN  /\ SentRange(r.requests) <=> get # NotAsked
              /\ Spend(Off("head", head) + OffHttp("get", get))
              /\ call' = [fn |-> "_check_ocsp_http", url |-> u, head |-> head, get |-> get,
                          d |-> d, ts |-> Timestamp(now)]
              /\ ret' = r.out
              /\ fx' = [NoFx EXCEPT !.requests = r.requests]
              /\ IF r.out.raised
                 THEN /\ Except("ocsp")
                      /\ produced' = [produced EXCEPT !["ocsp"] = Raised]
                 ELSE /\ local' = Append(local, r.out.value)
                      /\ idx' = idx + 1
                      /\ UNCHANGED <<pc, success, errors, produced>>
    /\ UNCHANGED <<results, log, log_exists, files, tmpfiles, now, world>>

\* The other call of the loop body: the status check.
OcspStatus ==
    /\ pc = "ocsp"
    /\ idx <= OcspSteps
    /\ idx % 2 = 0
    /\ \E x \in RunExchange \cup {NoExchange}, d \in RunDurations :
          LET u == OcspUrl(idx)
              r == _check_ocsp_status(u, Timestamp(now), x, d, files, tmpfiles)
          IN  /\ CaCert \in DOMAIN files <=> x # NoExchange
              /\ Spend(IF x \in {Usual(world).x, NoExchange} THEN 0 ELSE 1)
              /\ call' = [fn |-> "_check_ocsp_status", url |-> u, issuer_cert |-> CaCert,
                          serial |-> "0xAAA", x |-> x, d |-> d, ts |-> Timestamp(now),
                          store |-> files, tmp |-> tmpfiles]
              /\ ret' = r.out
              /\ fx' = [NoFx EXCEPT !.spawned = r.spawned, !.tmp_created = r.tmp_created]
              /\ tmpfiles' = r.tmpfiles
              /\ local' = Append(local, r.out.value)
              /\ idx' = idx + 1
    /\ UNCHANGED <<pc, success, errors, produced, results, log, log_exists, files, now, world>>

\* LDAPChecker.run_checks: the two port checks.
LdapPort ==
    /\ pc = "ldap"
    /\ idx <= Len(LdapSteps)
    /\ LdapSteps[idx].fn = "_check_port"
    /\ \E conn \in RunConnect, d \in RunDurations :
          LET r == _check_port(LDAP_HOST, LdapSteps[idx].port, Timestamp(now), conn, d)
          IN  /\ Spend(Off("conn", conn))
              /\ call' = [fn |-> "_check_port", host |-> LDAP_HOST,
                          port |-> LdapSteps[idx].port, conn |-> conn, d |-> d,
                          ts |-> Timestamp(now)]
              /\ ret' = r
              /\ fx' = NoFx
              /\ local' = Append(local, r.value)
              /\ idx' = idx + 1
    /\ UNCHANGED <<pc, success, errors, produced, results, log, log_exists, files, tmpfiles,
                   now, world>>

\* LDAPChecker.run_checks: the two searches.
LdapQuery ==
    /\ pc = "ldap"
    /\ idx <= Len(LdapSteps)
    /\ LdapSteps[idx].fn = "_check_ldap_query"
    /\ \E s \in RunSearch, d \in RunDurations :
          LET r == _check_ldap_query(LdapSteps[idx].protocol, Timestamp(now), s, d)
          IN  /\ Spend(Off("s", s))
              /\ call' = [fn |-> "_check_ldap_query", protocol |-> LdapSteps[idx].protocol,
                          s |-> s, d |-> d, ts |-> Timestamp(now)]
              /\ ret' = r.out
              /\ fx' = [NoFx EXCEPT !.spawned = r.spawned]
              /\ local' = Append(local, r.out.value)
              /\ idx' = idx + 1
    /\ UNCHANGED <<pc, success, errors, produced, results, log, log_exists, files, tmpfiles,
                   now, world>>

\* How many calls the checker of category c makes.
Steps(c) == CASE c = "pki" -> Len(PkiJobs) [] c = "ocsp" -> OcspSteps [] OTHER -> Len(LdapSteps)

\* run_checks returns its list; run_all_checks starts logging it.
ChecksReturn ==
    /\ pc \in {"pki", "ocsp", "ldap"}
    /\ idx > Steps(pc)
    /\ produced' = [produced EXCEPT ![pc] = Handed(local)]
    /\ IF local = <<>>
       THEN pc' = After(pc)
       ELSE pc' = pc \o "_log"
    /\ idx' = 1
    /\ UNCHANGED <<local, results, log, log_exists, success, errors, files, tmpfiles, now,
                   world, spare,
                   call, ret, fx>>

\* The category being logged at pc.
Logging == CASE pc = "pki_log" -> "pki" [] pc = "ocsp_log" -> "ocsp" [] OTHER -> "ldap"

\* _log_result(result): append to self.results, then append a row to the log.
_log_result(result, w) ==
    /\ results' = Append(results, result)
    /\ log' = IF w = "written" THEN Append(log, Row(result)) ELSE log
    /\ log_exists' = (log_exists \/ w = "written")

\* One iteration of `for result in ..._results: self._log_result(result)`.
LogResult ==
    /\ pc \in {"pki_log", "ocsp_log", "ldap_log"}
    /\ idx <= Len(local)
    /\ \E w \in LogWrites :
          /\ Spend(Off("w", w))
          /\ _log_result(local[idx], w)
          /\ IF w = "OSError"
             THEN Except(Logging)
             ELSE /\ IF idx = Len(local)
                     THEN /\ pc' = After(Logging)
                          /\ idx' = 1
                          /\ local' = <<>>
                     ELSE /\ idx' = idx + 1
                          /\ UNCHANGED <<pc, local>>
                  /\ UNCHANGED <<success, errors>>
    /\ UNCHANGED <<produced, files, tmpfiles, now, world, call, ret, fx>>

Next ==
    \/ PkiDownloadFile
    \/ OcspHttp
    \/ OcspStatus
    \/ LdapPort
    \/ LdapQuery
    \/ ChecksReturn
    \/ LogResult

Spec == Init /\ [][Next]_vars

-----------------------------------------------------------------------------
(* One call of one probe, for every answer of the environment *)

\* The artifact stores a probe may find: empty, with the CA certificate,
\* and with the CA certificate and a certificate downloaded at second 0.
Stores ==
    { <<>>,
      [p \in {CaCert} |-> "CERT"],
      [p \in {CaCert, "crt/" \o FileStamp(0) \o "-ESTEID2025.crt"} |-> "CERT"] }

\* The URLs handed to the artifact probes: the configured ones, and one
\* whose path is empty.
ProbeJobs ==
    {PkiJobs[i] : i \in 1..Len(PkiJobs)} \cup {Job(Url("https://crl.eidpki.ee", <<>>), "crl")}

\* The issuer certificates and serial numbers handed to check_ocsp_by_serial.
Issuers == {CaCert, "crt/" \o FileStamp(0) \o "-ESTEID2025.crt", "crt/missing.pem"}
Serials == {"0xAAA", "0x12c9"}

InitProbe ==
    /\ pc = "probe"
    /\ idx = 1
    /\ local = <<>>
    /\ results = <<>>
    /\ log = <<HEADER>>
    /\ log_exists = TRUE
    /\ success = TRUE
    /\ errors = {}
    /\ produced = [c \in {"pki", "ocsp", "ldap"} |-> NotRun]
    /\ files \in Stores
    /\ tmpfiles = {}
    /\ now \in 0..MaxTime
    /\ world = "up"
    /\ spare = 0
    /\ call = [fn |-> "none"]
    /\ ret = Returned(<<>>)
    /\ fx = NoFx

\* The probe has been called and has returned or raised.
Probed ==
    /\ pc' = "probed"
    /\ UNCHANGED <<idx, results, log, log_exists, success, errors, produced, world, spare>>

ProbeCheckUrl ==
    /\ pc = "probe"
    /\ \E j \in ProbeJobs, head \in HttpOutcomes, get \in Maybe(HttpOutcomes), d \in Durations :
          LET r == _check_url_accessibility(j.url, j.file_type, Timestamp(now), head, get, d)
          IN  /\ SentRange(r.requests) <=> get # NotAsked
              /\ call' = [fn |-> "_check_url_accessibility", url |-> j.url,
                          file_type |-> j.file_type, head |-> head, get |-> get, d |-> d,
                          ts |-> Timestamp(now), store |-> files]
              /\ ret' = r.out
              /\ fx' = [NoFx EXCEPT !.requests = r.requests]
    /\ Probed
    /\ UNCHANGED <<local, files, tmpfiles, now>>

ProbeDownloadFile ==
    /\ pc = "probe"
    /\ \E j \in ProbeJobs, head \in HttpOutcomes, get \in Maybe(HttpOutcomes),
          dl \in MaybeDownload(DownloadOutcomes), d \in Durations, t \in now..MaxTime :
          LET r == _download_file(j.url, j.file_type, j.output_dir, Timestamp(now), t,
                                  head, get, dl, d, files)
          IN  /\ SentRange(r.requests) <=> get # NotAsked
              /\ SentFull(r.requests) <=> dl.get # NotAsked
              /\ ~SentFull(r.requests) => t = now
              /\ call' = [fn |-> "_download_file", url |-> j.url, file_type |-> j.file_type,
                          output_dir |-> j.output_dir, head |-> head, get |-> get, dl |-> dl,
                          d |-> d, t |-> t, ts |-> Timestamp(now), store |-> files]
              /\ ret' = r.out
              /\ fx' = [NoFx EXCEPT !.requests = r.requests, !.written = r.written]
              /\ local' = r.results
              /\ files' = r.files
              /\ now' = t
    /\ Probed
    /\ UNCHANGED tmpfiles

ProbeOcspHttp ==
    /\ pc = "probe"
    /\ \E i \in 1..Len(OCSP_URLS), head \in HttpOutcomes, get \in Maybe(HttpOutcomes),
          d \in Durations :
          LET r == _check_ocsp_http(OCSP_URLS[i], Timestamp(now), head, get, d)
          IN  /\ SentRange(r.requests) <=> get # NotAsked
              /\ call' = [fn |-> "_check_ocsp_http", url |-> OCSP_URLS[i], head |-> head,
                          get |-> get, d |-> d, ts |-> Timestamp(now)]
              /\ ret' = r.out
              /\ fx' = [NoFx EXCEPT !.requests = r.requests]
    /\ Probed
    /\ UNCHANGED <<local, files, tmpfiles, now>>

ProbeOcspBySerial ==
    /\ pc = "probe"
    /\ \E i \in 1..Len(OCSP_URLS), issuer_cert \in Issuers, serial \in Serials,
          x \in ExchangeOutcomes \cup {NoExchange}, d \in Durations :
          LET r == check_ocsp_by_serial(OCSP_URLS[i], issuer_cert, serial,
                                        "ocsp_status_by_serial", Timestamp(now), x, d,
                                        files, tmpfiles)
          IN  /\ issuer_cert \in DOMAIN files <=> x # NoExchange
              /\ call' = [fn |-> "check_ocsp_by_serial", url |-> OCSP_URLS[i],
                          issuer_cert |-> issuer_cert, serial |-> serial, x |-> x, d |-> d,
                          ts |-> Timestamp(now), store |-> files, tmp |-> tmpfiles]
              /\ ret' = r.out
              /\ fx' = [NoFx EXCEPT !.spawned = r.spawned, !.tmp_created = r.tmp_created]
              /\ tmpfiles' = r.tmpfiles
    /\ Probed
    /\ UNCHANGED <<local, files, now>>

ProbeOcspStatus ==
    /\ pc = "probe"
    /\ \E i \in 1..Len(OCSP_URLS), x \in ExchangeOutcomes \cup {NoExchange}, d \in Durations :
          LET r == _check_ocsp_status(OCSP_URLS[i], Timestamp(now), x, d, files, tmpfiles)
          IN  /\ CaCert \in DOMAIN files <=> x # NoExchange
              /\ call' = [fn |-> "_check_ocsp_status", url |-> OCSP_URLS[i],
                          issuer_cert |-> CaCert, serial |-> "0xAAA", x |-> x, d |-> d,
                          ts |-> Timestamp(now), store |-> files, tmp |-> tmpfiles]
              /\ ret' = r.out
              /\ fx' = [NoFx EXCEPT !.spawned = r.spawned, !.tmp_created = r.tmp_created]
              /\ tmpfiles' = r.tmpfiles
    /\ Probed
    /\ UNCHANGED <<local, files, now>>

ProbePort ==
    /\ pc = "probe"
    /\ \E port \in {389, 636}, conn \in ConnectOutcomes, d \in Durations :
          /\ call' = [fn |-> "_check_port", host |-> LDAP_HOST, port |-> port, conn |-> conn,
                      d |-> d, ts |-> Timestamp(now)]
          /\ ret' = _check_port(LDAP_HOST, port, Timestamp(now), conn, d)
          /\ fx' = NoFx
    /\ Probed
    /\ UNCHANGED <<local, files, tmpfiles, now>>

ProbeLdapQuery ==
    /\ pc = "probe"
    /\ \E protocol \in {"ldap", "ldaps"}, s \in SearchOutcomes, d \in Durations :
          LET r == _check_ldap_query(protocol, Timestamp(now), s, d)
          IN  /\ call' = [fn |-> "_check_ldap_query", protocol |-> protocol, s |-> s,
                          d |-> d, ts |-> Timestamp(now)]
              /\ ret' = r.out
              /\ fx' = [NoFx EXCEPT !.spawned = r.spawned]
    /\ Probed
    /\ UNCHANGED <<local, files, tmpfiles, now>>

\* The texts handed to _parse_ocsp_response: empty, not an OCSP response,
\* openssl's indented output, a label twice in a line and on two lines, a
\* status line without value, revocation lines without a status line, and
\* two labels in one line.
ResponseTexts ==
    { "",
      "garbage",
      "Response verify OK\n    Cert Status: good\n    This Update: Jan  1 00:00:00 2025 GMT\n",
      "Cert Status: good Cert Status: revoked",
      "Cert Status: good\nCert Status: revoked\n",
      "Cert Status:",
      "    Revocation Time: Jan  1 00:00:00 2024 GMT\n    Revocation Reason: keyCompromise\n",
      "Cert Status: revoked Revocation Time: Jan  1 00:00:00 2024 GMT",
      "    Cert Status: revoked\n    Revocation Reason: keyCompromise\n    Revocation Time: Jan  1 00:00:00 2024 GMT" }

ProbeParse ==
    /\ pc = "probe"
    /\ \E response \in ResponseTexts :
          /\ call' = [fn |-> "_parse_ocsp_response", response |-> response]
          /\ ret' = Returned(ParseText(response))
          /\ fx' = NoFx
    /\ Probed
    /\ UNCHANGED <<local, files, tmpfiles, now>>

NextProbe ==
    \/ ProbeCheckUrl
    \/ ProbeDownloadFile
    \/ ProbeOcspHttp
    \/ ProbeOcspBySerial
    \/ ProbeOcspStatus
    \/ ProbePort
    \/ ProbeLdapQuery
    \/ ProbeParse

SpecProbe == InitProbe /\ [][NextProbe]_vars


-----------------------------------------------------------------------------
(* A session on one log file: runs, summaries, and the UI's buttons *)

\* Before anything ran: no log file, no PKIMonitor.
InitSession ==
    /\ pc = "idle"
    /\ idx = 1
    /\ local = <<>>
    /\ results = <<>>
    /\ log = <<>>
    /\ log_exists = FALSE
    /\ success = TRUE
    /\ errors = {}
    /\ produced = [c \in {"pki", "ocsp", "ldap"} |-> NotRun]
    /\ files \in {<<>>, [p \in {CaCert} |-> "CERT"]}
    /\ tmpfiles = {}
    /\ now = 0
    /\ world \in {"up", "down"}
    /\ spare = 0
    /\ call = [fn |-> "none"]
    /\ ret = Returned(<<>>)
    /\ fx = NoFx

\* No operation is under way.
AtRest == pc \in {"idle", "done"}

\* PKIMonitor(...): an empty results list; _init_csv_log writes the header
\* if the log file does not exist.  run_all_checks then starts with success = True.
Construct ==
    /\ AtRest
    /\ Len(log) < MaxLogRows
    /\ results' = <<>>
    /\ log' = IF log_exists THEN log ELSE <<HEADER>>
    /\ log_exists' = TRUE
    /\ pc' = "pki"
    /\ idx' = 1
    /\ local' = <<>>
    /\ success' = TRUE
    /\ errors' = {}
    /\ produced' = [c \in {"pki", "ocsp", "ldap"} |-> NotRun]
    /\ call' = [fn |-> "PKIMonitor"]
    /\ ret' = Returned(<<>>)
    /\ fx' = NoFx
    /\ UNCHANGED <<files, tmpfiles, now, world, spare>>

\* print_summary / render_summary over the records of the finished run.
PrintSummary ==
    /\ pc = "done"
    /\ call.fn = "print_summary" => call.nth < MaxSummaries
    /\ call' = [fn |-> "print_summary",
                nth |-> IF call.fn = "print_summary" THEN call.nth + 1 ELSE 1]
    /\ ret' = Returned(<<>>)
    /\ fx' = [NoFx EXCEPT !.printed = print_summary(results)]
    /\ UNCHANGED <<pc, idx, local, results, log, log_exists, success, errors, produced,
                   files, tmpfiles, now, world, spare>>

\* The UI's 'Clear log' button: the log file is removed and the session
\* forgets the monitor of the last run.
ClearLog ==
    /\ AtRest
    /\ log_exists
    /\ log' = <<>>
    /\ log_exists' = FALSE
    /\ results' = <<>>
    /\ pc' = "idle"
    /\ call' = [fn |-> "clear_log"]
    /\ ret' = Returned(<<>>)
    /\ fx' = NoFx
    /\ UNCHANGED <<idx, local, success, errors, produced, files, tmpfiles, now, world, spare>>

\* What the user may type as serial number, and the OCSP URL of the form.
SerialInputs == {"0xAAA", " 12c9 ", " "}
ManualUrl == Url("https://ocsp.eidpki.ee", <<"">>)

\* The issuer certificates the form offers: files of crt/ ending in .crt or .pem.
issuer_options ==
    {p \in DOMAIN files : StartsWith(p, "crt/") /\ (EndsWith(p, ".crt") \/ EndsWith(p, ".pem"))}

\* The row the manual OCSP check writes for its result.
ManualRow(result) ==
    << Get(result, "timestamp"), Get(result, "type"), Get(result, "url_or_host"),
       Get(result, "status"), Get(result, "http_code_or_port"), Get(result, "ms"),
       Get(result, "sha256_or_note"), Get(result, "note") >>

\* csv.DictReader: a row keyed by the field names; a field name without a
\* value in the row reads None, a repeated field name keeps its last value.
\* (Rows are kept as lists of fields: csv.writer quotes a field that holds a
\* separator, a quote or a line break, and csv.reader undoes it.)
DictRow(fieldnames, row) ==
    [k \in {fieldnames[i] : i \in 1..Len(fieldnames)} |->
        LET last == CHOOSE i \in 1..Len(fieldnames) :
                        /\ fieldnames[i] = k
                        /\ \A j \in 1..Len(fieldnames) : fieldnames[j] = k => j <= i
        IN  IF last <= Len(row) THEN row[last] ELSE None]

\* The UI's 'Check OCSP Status' button: check_ocsp_by_serial, then a row
\* appended to the log file.
ManualOcspCheck ==
    /\ AtRest
    /\ Len(log) < MaxLogRows
    /\ \E selected_issuer \in issuer_options, serial_number \in SerialInputs,
          d \in RunDurations :
          LET stripped == Strip(serial_number)
              serial == IF StartsWith(stripped, "0x") THEN stripped ELSE "0x" \o stripped
              x == Usual(world).x
              r == check_ocsp_by_serial(ManualUrl, selected_issuer, serial,
                                        "ocsp_status_by_serial", Timestamp(now), x, d,
                                        files, tmpfiles)
          IN  /\ stripped # ""
              /\ call' = [fn |-> "manual_ocsp_check", url |-> ManualUrl,
                          issuer_cert |-> selected_issuer, serial |-> serial, x |-> x,
                          d |-> d, ts |-> Timestamp(now), store |-> files, tmp |-> tmpfiles]
              /\ ret' = r.out
              /\ fx' = [NoFx EXCEPT !.spawned = r.spawned, !.tmp_created = r.tmp_created]
              /\ tmpfiles' = r.tmpfiles
              /\ log' = Append(log, ManualRow(r.out.value))
              /\ log_exists' = TRUE
    /\ UNCHANGED <<pc, idx, local, results, success, errors, produced, files, now, world,
                   spare>>

\* main() with --summary-only: PKIMonitor is constructed first (and
\* _init_csv_log creates a missing log), then the rows of the log are
\* loaded as the results and summarised if the log exists; otherwise main
\* reports that there is no log and exits with status 1.
MainSummaryOnly ==
    /\ AtRest
    /\ LET \* the log after PKIMonitor(...): as it was, or just created
           file == IF log_exists THEN log ELSE <<HEADER>>
           \* monitor.log_csv.exists(), evaluated after the construction
           exists == TRUE
           rows == IF file = <<>> THEN <<>>
                   ELSE [i \in 1..(Len(file) - 1) |-> DictRow(file[1], file[i + 1])]
       IN  /\ log' = file
           /\ log_exists' = exists
           /\ IF exists
              THEN /\ results' = rows
                   /\ fx' = [NoFx EXCEPT !.printed = print_summary(rows)]
                   /\ call' = [fn |-> "main", summary_only |-> TRUE,
                               log_existed |-> log_exists, exit |-> 0]
              ELSE /\ results' = <<>>
                   /\ fx' = [NoFx EXCEPT !.printed = <<"No log file found. Run checks first.">>]
                   /\ call' = [fn |-> "main", summary_only |-> TRUE,
                               log_existed |-> log_exists, exit |-> 1]
    /\ pc' = "idle"
    /\ ret' = Returned(<<>>)
    /\ UNCHANGED <<idx, local, success, errors, produced, files, tmpfiles, now, world, spare>>

NextSession ==
    \/ Construct
    \/ PkiDownloadFile
    \/ OcspHttp
    \/ OcspStatus
    \/ LdapPort
    \/ LdapQuery
    \/ ChecksReturn
    \/ LogResult
    \/ PrintSummary
    \/ ClearLog
    \/ ManualOcspCheck
    \/ MainSummaryOnly

SpecSession == InitSession /\ [][NextSession]_vars

-----------------------------------------------------------------------------
(* The command line: one whole run, then the summary *)

\* main() without --summary-only, once run_all_checks has returned:
\* print_summary, print_last_results, and exit status 1 unless the run
\* was a success.
MainReport ==
    /\ pc = "done"
    /\ pc' = "exited"
    /\ call' = [fn |-> "main", summary_only |-> FALSE, log_existed |-> log_exists,
                exit |-> IF success THEN 0 ELSE 1]
    /\ ret' = Returned(<<>>)
    /\ fx' = [NoFx EXCEPT !.printed = print_summary(results)]
    /\ UNCHANGED <<idx, local, results, log, log_exists, success, errors, produced, files,
                   tmpfiles, now, world, spare>>

NextMain ==
    \/ PkiDownloadFile
    \/ OcspHttp
    \/ OcspStatus
    \/ LdapPort
    \/ LdapQuery
    \/ ChecksReturn
    \/ LogResult
    \/ MainReport

\* The program is sequential and every probe returns, fails or times out
\* (urlopen, subprocess.run and the socket are given timeouts): whatever
\* step comes next is eventually taken.
SpecMain == Init /\ [][NextMain]_vars /\ WF_vars(NextMain)

-----------------------------------------------------------------------------
(* Two PKIMonitor instances on the same log path *)

\* Each monitor logs this many records.
RowsPerRun == 3

Monitors == {1, 2}

\* The records monitor m logs: its LDAP port checks, made at second m - 1.
Workload(m) ==
    [i \in 1..RowsPerRun |->
        _check_port(LDAP_HOST, IF i % 2 = 1 THEN 389 ELSE 636, Timestamp(m - 1),
                    "connected", 7).value]

\* Here pc, idx, local and results are per monitor.  pc[m] is "test" before
\* _init_csv_log's existence test, "create" between the test and the
\* write, "run" while the records are logged, "done" after.
InitPair ==
    /\ pc = [m \in Monitors |-> "test"]
    /\ idx = [m \in Monitors |-> 1]
    /\ local = [m \in Monitors |-> Workload(m)]
    /\ results = [m \in Monitors |-> <<>>]
    /\ \/ log = <<>> /\ log_exists = FALSE
       \/ log = <<HEADER>> /\ log_exists = TRUE
    /\ success = TRUE
    /\ errors = {}
    /\ produced = [c \in {"pki", "ocsp", "ldap"} |-> NotRun]
    /\ files = <<>>
    /\ tmpfiles = {}
    /\ now = 0
    /\ world = "up"
    /\ spare = 0
    /\ call = [fn |-> "none"]
    /\ ret = Returned(<<>>)
    /\ fx = NoFx

\* _init_csv_log, line 44: `if not self.log_csv.exists()`.
InitCsvLogTest(m) ==
    /\ pc[m] = "test"
    /\ pc' = [pc EXCEPT ![m] = IF log_exists THEN "run" ELSE "create"]
    /\ call' = [fn |-> "_init_csv_log", monitor |-> m, step |-> "exists"]
    /\ UNCHANGED <<idx, local, results, log, log_exists, success, errors, produced, files,
                   tmpfiles, now, world, spare, ret, fx>>

\* _init_csv_log, lines 45-51: open(self.log_csv, 'w') creates the file or
\* empties the one that exists, and the header row is written.  (Taken as
\* one step: the header reaches the file when the with-block closes it.)
InitCsvLogWrite(m) ==
    /\ pc[m] = "create"
    /\ log' = <<HEADER>>
    /\ log_exists' = TRUE
    /\ pc' = [pc EXCEPT ![m] = "run"]
    /\ call' = [fn |-> "_init_csv_log", monitor |-> m, step |-> "write"]
    /\ UNCHANGED <<idx, local, results, success, errors, produced, files, tmpfiles, now,
                   world, spare, ret, fx>>

\* _log_result of monitor m for its next record: open(self.log_csv, 'a')
\* and one row written at the end of the file.
PairLogResult(m) ==
    /\ pc[m] = "run"
    /\ results' = [results EXCEPT ![m] = Append(@, local[m][idx[m]])]
    /\ log' = Append(log, Row(local[m][idx[m]]))
    /\ log_exists' = TRUE
    /\ idx' = [idx EXCEPT ![m] = @ + 1]
    /\ pc' = [pc EXCEPT ![m] = IF idx[m] = Len(local[m]) THEN "done" ELSE "run"]
    /\ call' = [fn |-> "_log_result", monitor |-> m, step |-> "append"]
    /\ UNCHANGED <<local, success, errors, produced, files, tmpfiles, now, world, spare,
                   ret, fx>>

NextPair ==
    \E m \in Monitors :
        \/ InitCsvLogTest(m)
        \/ InitCsvLogWrite(m)
        \/ PairLogResult(m)

SpecPair == InitPair /\ [][NextPair]_vars

-----------------------------------------------------------------------------
(* Properties *)

\* The record a finished call returned.
Record == ret.value

\* The availability record at the head of _download_file's list.
CheckRecord == local[1]

\* C1: in _download_file the full download is requested only after an
\* availability record with status 'ok' for the same URL; after a 'fail'
\* record no download request is sent, no file is created, and the second
\* record is the synthetic one: '<category>_download', 'fail', '000', ms '0',
\* empty hash, note 'URL not accessible'.
C1_DownloadOnlyAfterOk ==
    call.fn = "_download_file" =>
        /\ SentFull(fx.requests) =>
              /\ Len(local) >= 1
              /\ CheckRecord.type = call.file_type \o "_check"
              /\ CheckRecord.url_or_host = UrlStr(call.url)
              /\ CheckRecord.status = "ok"
        /\ (Len(local) >= 1 /\ CheckRecord.status = "fail") =>
              /\ ~SentFull(fx.requests)
              /\ fx.written = {}
              /\ files = call.store
              /\ ~ret.raised
              /\ Record = local
              /\ Len(local) = 2
              /\ local[2].type = call.file_type \o "_download"
              /\ local[2].url_or_host = UrlStr(call.url)
              /\ local[2].status = "fail"
              /\ local[2].http_code_or_port = "000"
              /\ local[2].ms = "0"
              /\ local[2].sha256_or_note = ""
              /\ local[2].note = "URL not accessible"

\* A download skipped after a server answered 404, with files of earlier runs
\* in the store.
C1_Witness ==
    /\ call.fn = "_download_file"
    /\ call.head = HTTPError(404)
    /\ call.store # <<>>
    /\ Len(local) = 2
    /\ CheckRecord.status = "fail"
    /\ local[2].note = "URL not accessible"

\* The configured URLs in the order run_checks visits them.
Configured ==
    [i \in 1..Len(PDF_URLS) |-> [file_type |-> "pdf", url |-> UrlStr(PDF_URLS[i])]]
    \o [i \in 1..Len(CRT_URLS) |-> [file_type |-> "crt", url |-> UrlStr(CRT_URLS[i])]]
    \o [i \in 1..Len(CRL_URLS) |-> [file_type |-> "crl", url |-> UrlStr(CRL_URLS[i])]]

\* list is the check record and then the download record of every configured URL.
PairPerUrl(list) ==
    /\ Len(list) = 2 * Len(Configured)
    /\ \A i \in 1..Len(Configured) :
          /\ list[2 * i - 1].type = Configured[i].file_type \o "_check"
          /\ list[2 * i - 1].url_or_host = Configured[i].url
          /\ list[2 * i].type = Configured[i].file_type \o "_download"
          /\ list[2 * i].url_or_host = Configured[i].url

\* C2: whenever PKIChecker.run_checks returns, its list holds for every
\* configured URL (pdf, crt, crl, in configured order, duplicates included) the
\* '<category>_check' record immediately followed by the '<category>_download'
\* record of the same URL, so its length is twice the number of URLs.
C2_TwoRecordsPerUrl ==
    produced["pki"].state = "returned" => PairPerUrl(produced["pki"].value)

\* A returned list with a performed download, a skipped download, and the
\* duplicated first URL.
C2_Witness ==
    /\ produced["pki"].state = "returned"
    /\ Len(PDF_URLS) >= 2
    /\ PDF_URLS[1] = PDF_URLS[2]
    /\ \E i, j \in 1..Len(Configured) :
          /\ produced["pki"].value[2 * i].status = "ok"
          /\ produced["pki"].value[2 * j].note = "URL not accessible"

EachCategory == {Categories[i] : i \in 1..Len(Categories)}

\* The record types of a category.
TypesOf(c) ==
    CASE c = "pki" -> {"pdf_check", "pdf_download", "crt_check", "crt_download",
                       "crl_check", "crl_download"}
      [] c = "ocsp" -> {"ocsp_http_check", "ocsp_status"}
      [] OTHER -> {"ldap_port", "ldap_search"}

\* The accumulated records and the logged rows of category c.
ResultsOf(c) == SelectSeq(results, LAMBDA r : r.type \in TypesOf(c))
RowsOf(c) == SelectSeq(Tail(log), LAMBDA row : row[2] \in TypesOf(c))
Rows(list) == [i \in 1..Len(list) |-> Row(list[i])]

\* Category c's checker returned and every record of it was accumulated and logged.
FullyLogged(c) ==
    /\ produced[c].state = "returned"
    /\ ResultsOf(c) = produced[c].value
    /\ RowsOf(c) = Rows(produced[c].value)

\* C3: an exception while running or logging one category is caught at that
\* category's boundary and makes the return value False, and the later
\* categories still run: at the end every checker has been invoked, and every
\* category that did not fault has all its records accumulated and logged.
C3_FaultsAreIsolated ==
    /\ errors # {} => success = FALSE
    /\ \A c \in EachCategory :
          c \in errors => pc \notin {c, c \o "_log"}
    /\ pc = "done" =>
          \A c \in EachCategory :
              /\ produced[c].state # "none"
              /\ c \notin errors => FullyLogged(c)

\* The artifact and the OCSP category both faulted and the LDAP records were
\* still produced and logged.
C3_Witness ==
    /\ pc = "done"
    /\ errors = {"pki", "ocsp"}
    /\ produced["pki"].state = "raised"
    /\ success = FALSE
    /\ FullyLogged("ldap")
    /\ Len(ResultsOf("ldap")) = 4

\* The block of category c raised: its checker did, or a log write of one of
\* its records did.
BlockRaised(c) ==
    \/ produced[c].state = "raised"
    \/ produced[c].state = "returned" /\ RowsOf(c) # Rows(produced[c].value)

\* C4: run_all_checks returns False if and only if one of the three category
\* blocks raised; the statuses of the records do not matter.
C4_FalseIffBlockRaised ==
    pc = "done" => (success = FALSE <=> \E c \in EachCategory : BlockRaised(c))

\* A finished run that returns True although every record has status 'fail'.
C4_Witness ==
    /\ pc = "done"
    /\ success = TRUE
    /\ Len(results) = 2 * Len(Configured) + OcspSteps + 4
    /\ \A i \in 1..Len(results) : results[i].status = "fail"


\* What a record is about: its type and its target.
About(r) == <<r.type, r.url_or_host>>

\* The order of a run without fault.
ExpectedOrder ==
    [k \in 1..(2 * Len(Configured)) |->
        <<Configured[(k + 1) \div 2].file_type
              \o (IF k % 2 = 1 THEN "_check" ELSE "_download"),
          Configured[(k + 1) \div 2].url>>]
    \o [k \in 1..(2 * Len(OCSP_URLS)) |->
        <<IF k % 2 = 1 THEN "ocsp_http_check" ELSE "ocsp_status",
          UrlStr(OCSP_URLS[(k + 1) \div 2])>>]
    \o << <<"ldap_port", LDAP_HOST>>, <<"ldap_port", LDAP_HOST>>,
          <<"ldap_search", "ldap://" \o LDAP_HOST>>,
          <<"ldap_search", "ldaps://" \o LDAP_HOST>> >>

\* The last four records are port 389, port 636, search ldap, search ldaps.
LdapTail(list) ==
    LET n == Len(list)
    IN  /\ n >= 4
        /\ list[n - 3].http_code_or_port = "389"
        /\ list[n - 2].http_code_or_port = "636"
        /\ list[n - 1].http_code_or_port = "LDAP"
        /\ list[n].http_code_or_port = "LDAPS"

\* C5: in a run without fault the records are logged in the fixed order
\* artifacts (pdf, crt, crl, as configured), then per OCSP URL
\* 'ocsp_http_check' and 'ocsp_status', then 'ldap_port' 389, 'ldap_port' 636,
\* 'ldap_search' ldap, 'ldap_search' ldaps; and the OCSP status query and the
\* LDAP searches are performed whatever the preceding record's status.
C5_FixedOrderNoGating ==
    /\ (pc = "done" /\ errors = {}) =>
          /\ [k \in 1..Len(results) |-> About(results[k])] = ExpectedOrder
          /\ LdapTail(results)
          /\ Tail(log) = Rows(results)
    /\ (pc = "ocsp" /\ call.fn = "_check_ocsp_status" /\ CaCert \in DOMAIN call.store) =>
          /\ Len(local) >= 2
          /\ local[Len(local) - 1].type = "ocsp_http_check"
          /\ Len(fx.spawned) = 1
    /\ (pc = "ldap" /\ call.fn = "_check_ldap_query") =>
          /\ Len(local) >= 3
          /\ Len(fx.spawned) = 1

\* A run without fault in which the status query follows a failed
\* reachability record and a search follows two failed port records.
C5_Witness ==
    /\ pc = "done"
    /\ errors = {}
    /\ \E k \in 1..(Len(results) - 1) :
          /\ results[k].type = "ocsp_http_check"
          /\ results[k].status = "fail"
          /\ results[k + 1].type = "ocsp_status"
          /\ results[k + 1].status = "ok"
    /\ results[Len(results) - 3].status = "fail"
    /\ results[Len(results) - 2].status = "fail"
    /\ results[Len(results) - 1].status = "ok"

\* HEAD was answered with HTTP 403 or 405.
HeadRefused == call.head.kind = "HTTPError" /\ call.head.code \in {403, 405}

\* C6: the availability check sends the ranged GET (bytes=0-0) if and only if
\* HEAD was answered with HTTP 403 or 405; it sends one HEAD and at most one
\* GET; HEAD 405 followed by GET 206 gives status 'ok' with code '206'.
C6_FallbackOnlyAfter403Or405 ==
    call.fn = "_check_url_accessibility" =>
        LET head == Req("HEAD", UrlStr(call.url), "")
            ranged == Req("GET", UrlStr(call.url), "bytes=0-0")
        IN  /\ fx.requests \in {<<head>>, <<head, ranged>>}
            /\ SentRange(fx.requests) <=> HeadRefused
            /\ (/\ call.head = HTTPError(405)
                /\ call.get.kind = "response"
                /\ call.get.code = 206) =>
                    /\ ~ret.raised
                    /\ Record.status = "ok"
                    /\ Record.http_code_or_port = "206"

\* HEAD answered 405 and the ranged GET 206.
C6_Witness ==
    /\ call.fn = "_check_url_accessibility"
    /\ call.head = HTTPError(405)
    /\ call.get.kind = "response"
    /\ call.get.code = 206
    /\ Len(fx.requests) = 2
    /\ Record.http_code_or_port = "206"

\* An HTTP check returned a record.
HttpChecked ==
    /\ call.fn \in {"_check_url_accessibility", "_check_ocsp_http"}
    /\ ~ret.raised

\* The answer to the last request of the call, and its HTTP code (0: none).
FinalAnswer == IF call.get = NotAsked THEN call.head ELSE call.get
FinalCode == IF FinalAnswer.kind \in {"response", "HTTPError"} THEN FinalAnswer.code ELSE 0

\* C7: a record of an HTTP check has status 'ok' if and only if the final
\* HTTP code is 200 or 206; so 'ok' implies code '200' or '206' and a 'fail'
\* record never has code '200' or '206'.
C7_OkIff200Or206 ==
    HttpChecked =>
        /\ Record.status \in {"ok", "fail"}
        /\ Record.status = "ok" <=> FinalCode \in {200, 206}
        /\ Record.status = "ok" => Record.http_code_or_port \in {"200", "206"}
        /\ Record.status = "fail" => Record.http_code_or_port \notin {"200", "206"}

\* The OCSP endpoint answered HEAD with 204: a 2xx code that is not a success.
C7_Witness ==
    /\ call.fn = "_check_ocsp_http"
    /\ call.head.kind = "response"
    /\ call.head.code = 204
    /\ ~ret.raised
    /\ Record.status = "fail"
    /\ Record.http_code_or_port = "204"

\* C8: when the final HTTP code is outside {200, 206} the record has status
\* 'fail' and http_code_or_port equal to that code; '000' appears only when
\* no HTTP response was obtained.
C8_NumericCodePreserved ==
    HttpChecked =>
        /\ (FinalCode # 0 /\ FinalCode \notin {200, 206}) =>
              /\ Record.status = "fail"
              /\ Record.http_code_or_port = ToString(FinalCode)
        /\ Record.http_code_or_port = "000" => FinalCode = 0

\* What C9 compares: the requests (method and range) and the record's status
\* and code, or that the call raised.
Policy(r) ==
    [requests |-> [k \in 1..Len(r.requests) |->
                      <<r.requests[k].method, r.requests[k].range>>],
     raised |-> r.out.raised,
     status |-> IF r.out.raised THEN "" ELSE r.out.value.status,
     code |-> IF r.out.raised THEN "" ELSE r.out.value.http_code_or_port]

\* C9: for every pair of outcomes of HEAD and of the ranged GET, the OCSP
\* reachability check and the artifact availability check send the same
\* requests in the same order and return the same status and code.
C9_SameFallbackPolicy ==
    /\ call.fn = "_check_ocsp_http" =>
          Policy([out |-> ret, requests |-> fx.requests])
              = Policy(_check_url_accessibility(call.url, "pdf", call.ts, call.head,
                                                call.get, call.d))
    /\ call.fn = "_check_url_accessibility" =>
          Policy([out |-> ret, requests |-> fx.requests])
              = Policy(_check_ocsp_http(call.url, call.ts, call.head, call.get, call.d))

\* The OCSP endpoint refused HEAD with 403 and answered the ranged GET with 404.
C9_Witness ==
    /\ call.fn = "_check_ocsp_http"
    /\ call.head = HTTPError(403)
    /\ call.get = HTTPError(404)
    /\ Len(fx.requests) = 2
    /\ ~ret.raised
    /\ Record.status = "fail"

\* A status query was called with an issuer certificate that does not exist.
IssuerMissing ==
    /\ call.fn \in {"check_ocsp_by_serial", "_check_ocsp_status"}
    /\ call.issuer_cert \notin DOMAIN call.store

\* C10: check_ocsp_by_serial and _check_ocsp_status with an issuer
\* certificate path that does not exist return status 'fail', code '000',
\* empty hash and a note with that path; openssl is not started and no
\* temporary file is created.
C10_MissingIssuerShortCircuits ==
    IssuerMissing =>
        /\ ~ret.raised
        /\ Record.status = "fail"
        /\ Record.http_code_or_port = "000"
        /\ Record.sha256_or_note = ""
        /\ Record.note = (IF call.fn = "check_ocsp_by_serial"
                          THEN "Issuer certificate not found: "
                          ELSE "CA certificate not found: ") \o call.issuer_cert
        /\ fx.spawned = <<>>
        /\ fx.tmp_created = 0
        /\ tmpfiles = call.tmp

\* check_ocsp_by_serial with a missing issuer while other files exist.
C10_Witness ==
    /\ call.fn = "check_ocsp_by_serial"
    /\ call.store # <<>>
    /\ call.issuer_cert \notin DOMAIN call.store
    /\ ~ret.raised
    /\ Record.status = "fail"


\* A status query was called with an issuer certificate that exists.
Exchanged ==
    /\ call.fn \in {"check_ocsp_by_serial", "_check_ocsp_status"}
    /\ call.issuer_cert \in DOMAIN call.store

\* C11: with an existing issuer file, the record's status is 'ok' if and
\* only if the exchange completed (openssl exited with 0, no timeout, no
\* exception); the certificate status in the response (good, revoked,
\* absent) does not matter, and every timeout or exception gives 'fail'
\* with code '000'.
C11_OkIffExchangeCompleted ==
    Exchanged =>
        /\ ~ret.raised
        /\ Record.status \in {"ok", "fail"}
        /\ Record.status = "ok" <=> call.x.kind = "exit0"
        /\ Record.status = "fail" => Record.http_code_or_port = "000"
        /\ call.x.kind \in {"TimeoutExpired", "FileNotFoundError", "write_fail",
                            "mkstemp_fail"} =>
              /\ Record.status = "fail"
              /\ Record.http_code_or_port = "000"

\* The responder reported the certificate as revoked and the record is 'ok'.
C11_Witness ==
    /\ call.fn = "check_ocsp_by_serial"
    /\ call.issuer_cert \in DOMAIN call.store
    /\ call.x.kind = "exit0"
    /\ LastValue(call.x.stdout, "Cert Status:") = "revoked"
    /\ ~ret.raised
    /\ Record.status = "ok"


\* The response has a line with the label.
Has(lines, label) == \E i \in 1..Len(lines) : lines[i].label = label

\* The note C12 describes for a response and a serial number.
ComposedNote(lines, serial) ==
    (IF Has(lines, "Cert Status:") THEN LastValue(lines, "Cert Status:") ELSE "unknown")
    \o (IF Has(lines, "Revocation Time:")
        THEN ", Revocation Time: " \o LastValue(lines, "Revocation Time:") ELSE "")
    \o (IF Has(lines, "Revocation Reason:")
        THEN ", Reason: " \o LastValue(lines, "Revocation Reason:") ELSE "")
    \o " (serial: " \o serial \o ")"

\* C12: after a successful exchange the note is '<status>', then
\* ', Revocation Time: <t>' exactly when the response has a 'Revocation Time:'
\* line, then ', Reason: <r>' exactly when it has a 'Revocation Reason:' line,
\* then ' (serial: <serial>)', for every combination of the two lines.
C12_NoteComposition ==
    (Exchanged /\ call.x.kind = "exit0") =>
        /\ ~ret.raised
        /\ Record.note = ComposedNote(call.x.stdout, call.serial)


\* C13: _check_port returns an 'ldap_port' record whose http_code_or_port is
\* the probed port; a successful connect gives 'ok' with the measured
\* duration, a refused or timed-out connect gives 'fail' with ms '0'.
C13_PortRecord ==
    call.fn = "_check_port" =>
        /\ ~ret.raised
        /\ Record.type = "ldap_port"
        /\ Record.url_or_host = call.host
        /\ Record.http_code_or_port = ToString(call.port)
        /\ call.conn = "connected" =>
              /\ Record.status = "ok"
              /\ Record.ms = ToString(call.d)
        /\ call.conn \in {"refused", "timed_out"} =>
              /\ Record.status = "fail"
              /\ Record.ms = "0"

\* A refused connect on port 389 that took 7 ms.
C13_Witness ==
    /\ call.fn = "_check_port"
    /\ call.port = 389
    /\ call.conn = "refused"
    /\ call.d = 7
    /\ Record.status = "fail"
    /\ Record.http_code_or_port = "389"
    /\ Record.ms = "0"


\* C14: _check_ldap_query never raises and puts every outcome of the search
\* in exactly one class: completed without entry -> 'ok', 'empty';
\* completed with an entry -> 'ok', 'found'; not completed -> 'fail' with
\* 'Query timeout' for a timeout, 'ldapsearch error: ...' for a failed
\* search, and the exception's text for any other exception.
C14_SearchClassification ==
    call.fn = "_check_ldap_query" =>
        /\ ~ret.raised
        /\ Record.type = "ldap_search"
        /\ CASE call.s.kind = "exit0" /\ call.s.dn_lines = 0 ->
                    Record.status = "ok" /\ Record.note = "empty"
             [] call.s.kind = "exit0" /\ call.s.dn_lines > 0 ->
                    Record.status = "ok" /\ Record.note = "found"
             [] call.s.kind = "TimeoutExpired" ->
                    Record.status = "fail" /\ Record.note = "Query timeout"
             [] call.s.kind = "exit1" ->
                    /\ Record.status = "fail"
                    /\ Record.note = "ldapsearch error: Can't contact LDAP server (-1)"
             [] OTHER ->
                    /\ Record.status = "fail"
                    /\ Record.note = "[Errno 2] No such file or directory: 'ldapsearch'"

\* A search over ldaps that completed without any entry.
C14_Witness ==
    /\ call.fn = "_check_ldap_query"
    /\ call.protocol = "ldaps"
    /\ call.s = Search("exit0", 0)
    /\ Record.status = "ok"
    /\ Record.note = "empty"


\* The records the last call produced (_parse_ocsp_response returns a
\* string, not a record).
Emitted ==
    IF call.fn = "_download_file" THEN local
    ELSE IF call.fn \in {"none", "_parse_ocsp_response"} \/ ret.raised THEN <<>>
    ELSE <<ret.value>>

\* The types of the records of the HTTP checks.
HttpTypes == {"pdf_check", "crt_check", "crl_check", "ocsp_http_check"}

\* C15 as stated: a record with status 'fail' has http_code_or_port '000',
\* unless a numeric HTTP code was obtained from the server.
C15_FailImpliesZeroCode ==
    \A i \in 1..Len(Emitted) :
        Emitted[i].status = "fail" =>
            \/ Emitted[i].http_code_or_port = "000"
            \/ /\ Emitted[i].type \in HttpTypes
               /\ FinalCode # 0
               /\ Emitted[i].http_code_or_port = ToString(FinalCode)

\* C15, amended: a 'fail' record of an HTTP check has http_code_or_port
\* '000' or the numeric code obtained; a 'fail' record of a download or of
\* an OCSP status query has '000'; a 'fail' record of an LDAP probe carries
\* the probed port or the protocol tag.
C15_FailCode ==
    \A i \in 1..Len(Emitted) :
        Emitted[i].status = "fail" =>
            CASE Emitted[i].type \in HttpTypes ->
                    \/ Emitted[i].http_code_or_port = "000"
                    \/ /\ FinalCode # 0
                       /\ Emitted[i].http_code_or_port = ToString(FinalCode)
              [] Emitted[i].type = "ldap_port" ->
                    Emitted[i].http_code_or_port = ToString(call.port)
              [] Emitted[i].type = "ldap_search" ->
                    Emitted[i].http_code_or_port = Upper(call.protocol)
              [] OTHER -> Emitted[i].http_code_or_port = "000"

\* A search over ldaps that timed out: 'fail' with the protocol tag.
C15_Witness ==
    /\ call.fn = "_check_ldap_query"
    /\ call.s.kind = "TimeoutExpired"
    /\ Len(Emitted) = 1
    /\ Emitted[1].status = "fail"
    /\ Emitted[1].http_code_or_port = "LDAPS"


\* The types of the records that may carry a content hash.
HashedTypes ==
    {"pdf_download", "crt_download", "crl_download", "ocsp_status", "ocsp_status_by_serial"}

\* C16: a record has a non-empty sha256_or_note only if its status is 'ok'
\* and its type is '<category>_download', 'ocsp_status' or
\* 'ocsp_status_by_serial'; check, endpoint, LDAP and failed records have an
\* empty hash.
C16_HashOnlyOnOkDownloadOrStatus ==
    \A i \in 1..Len(Emitted) :
        Emitted[i].sha256_or_note # "" =>
            /\ Emitted[i].status = "ok"
            /\ Emitted[i].type \in HashedTypes

\* A download that succeeded: the check record has no hash, the download
\* record has one.
C16_Witness ==
    /\ call.fn = "_download_file"
    /\ Len(Emitted) = 2
    /\ Emitted[1].sha256_or_note = ""
    /\ Emitted[2].status = "ok"
    /\ Emitted[2].sha256_or_note # ""


\* C17: after any sequence of _log_result calls of a run, failed writes
\* included, the records in memory are, one for one and in the same order,
\* the rows the run has appended to the log.
C17_MemoryMatchesLog == Rows(results) = Tail(log)


\* The six partitions of the summary: how a record is put in one (by type
\* prefix or by exact type) and the label of the line that reports it.
Partitions ==
    { [prefix |-> TRUE, of |-> "pdf_", label |-> "PDF:"],
      [prefix |-> TRUE, of |-> "crt_", label |-> "CRT:"],
      [prefix |-> TRUE, of |-> "crl_", label |-> "CRL:"],
      [prefix |-> TRUE, of |-> "ocsp_", label |-> "OCSP:"],
      [prefix |-> FALSE, of |-> "ldap_search", label |-> "LDAP:"],
      [prefix |-> FALSE, of |-> "ldap_port", label |-> "LDAP:"] }

\* The accumulated records of a partition.
Members(p) ==
    SelectSeq(results, LAMBDA r : IF p.prefix THEN StartsWith(r.type, p.of) ELSE r.type = p.of)

\* '<ok-count>/<total-count>' of a partition.
OkOfTotal(p) ==
    ToString(Len(SelectSeq(Members(p), LAMBDA r : r.status = "ok")))
    \o "/" \o ToString(Len(Members(p)))

\* The summary reports the ok-count and the total of partition p.
Reports(p) ==
    \E k \in 1..Len(fx.printed) :
        /\ StartsWith(fx.printed[k], p.label)
        /\ Contains(fx.printed[k], OkOfTotal(p))

\* C18: the summary partitions the accumulated records by type prefix
\* 'pdf_', 'crt_', 'crl_', 'ocsp_' and by exact type 'ldap_search',
\* 'ldap_port', and reports for each of the six partitions the number of
\* 'ok' records and the total number of records.
C18_SummaryOkAndTotal ==
    call.fn = "print_summary" => \A p \in Partitions : Reports(p)


\* C19: after PKIMonitor is constructed the log file exists and starts with
\* the header; and after any sequence of constructions, runs, 'Clear log'
\* and manual OCSP checks, a log file that exists starts with the header and
\* has it only once.
C19_HeaderFirstAndOnce ==
    /\ call.fn = "PKIMonitor" => log_exists
    /\ log_exists =>
          /\ Len(log) >= 1
          /\ log[1] = HEADER
          /\ Cardinality({i \in 1..Len(log) : log[i] = HEADER}) = 1

\* The row, read back keyed by the header, gives every field of the record.
ReadsBack(row, result) ==
    \A i \in 1..Len(HEADER) : DictRow(HEADER, row)[HEADER[i]] = Get(result, HEADER[i])

\* C20: every row a writer puts in the log (_log_result, the manual OCSP
\* check) has as many fields as the header and, read back keyed by the
\* header, gives for every field the string the record held ('' for a key
\* the record does not have).
C20_RowsRoundTrip ==
    /\ \A i \in 1..Len(log) : Len(log[i]) = Len(HEADER)
    /\ (pc \notin {"idle", "done"} /\ results # <<>>) =>
          ReadsBack(log[Len(log)], results[Len(results)])
    /\ call.fn = "manual_ocsp_check" => ReadsBack(log[Len(log)], Record)

\* The download record _download_file's list ends with, when the full
\* download was attempted.
DownloadRecord == local[2]

\* C21: when the full download returns a 'fail' record, no file written
\* by that attempt remains in the artifact store.
C21_FailedDownloadLeavesNoFile ==
    (/\ call.fn = "_download_file"
     /\ SentFull(fx.requests)
     /\ ~ret.raised
     /\ DownloadRecord.status = "fail") =>
        \A p \in fx.written : p \notin DOMAIN files

\* The 'ok' download records of a list.
OkDownloads(list) ==
    SelectSeq(list, LAMBDA r : EndsWith(r.type, "_download") /\ r.status = "ok")

\* The files added to the artifact directories since the run started (the
\* store held at most the CA certificate then).
Added == DOMAIN files \ {CaCert}

\* C22: every successful download of a run leaves a file of its own: a
\* download that returns 'ok' has written a path that held no file before,
\* and while the artifact checker runs the number of files added equals the
\* number of 'ok' download records.
C22_OneFilePerOkDownload ==
    /\ (call.fn = "_download_file" /\ ~ret.raised /\ Record[2].status = "ok") =>
          fx.written \cap DOMAIN call.store = {}
    /\ pc = "pki" => Cardinality(Added) = Len(OkDownloads(local))

\* C23: summary-only mode with no log file at the configured path is a hard
\* stop: main reports that no log file was found, exits with status 1,
\* prints no summary and creates no log.
C23_SummaryOnlyWithoutLogStops ==
    (call.fn = "main" /\ call.summary_only /\ ~call.log_existed) =>
        /\ call.exit = 1
        /\ fx.printed = <<"No log file found. Run checks first.">>
        /\ ~log_exists

\* The requests and processes of the probe call made last stay within the
\* fixed numbers: HEAD and at most one ranged GET per availability check, at
\* most one full GET per URL, at most one openssl or ldapsearch process per
\* probe; and a checker makes each of its calls once.
WithinFixedWork ==
    /\ Len(SelectSeq(fx.requests, LAMBDA q : q.method = "HEAD")) <= 1
    /\ Len(SelectSeq(fx.requests, LAMBDA q : q.range # "")) <= 1
    /\ Len(SelectSeq(fx.requests, LAMBDA q : q.method = "GET" /\ q.range = "")) <= 1
    /\ Len(fx.spawned) <= 1
    /\ pc \in {"pki", "ocsp", "ldap"} => idx <= Steps(pc) + 1
    /\ pc \in {"pki", "ocsp", "ldap"} => Len(local) <= 2 * Steps(pc)
    /\ Len(LdapSteps) = 4

\* run_all_checks has returned after attempting the three categories, and
\* the summary of the accumulated records has been printed.
Reported ==
    /\ pc = "exited"
    /\ \A c \in EachCategory : produced[c] # NotRun
    /\ fx.printed = print_summary(results)
    /\ call.exit = (IF success THEN 0 ELSE 1)

\* C24: a full run always completes: every probe call stays within its
\* fixed number of requests and processes (no retries), and eventually
\* run_all_checks has returned after attempting all three categories and
\* the summary has been produced, whatever failed or faulted.
C24_RunCompletes == [](WithinFixedWork) /\ <>(Reported)

\* A run in which every category faulted, reported all the same.
C24_Witness ==
    /\ pc = "exited"
    /\ errors = EachCategory
    /\ Len(fx.printed) = 5
    /\ call.exit = 1

\* C25: with two monitors on one log path, under every interleaving of
\* their existence tests, header writes and appends, every row a monitor
\* has written is still in the log, in the order that monitor wrote them,
\* and once a monitor is past its initialisation the log starts with the
\* header and holds it once.
C25_ConcurrentAppendOnly ==
    /\ \A m \in Monitors :
          SelectSeq(log, LAMBDA row : \E i \in 1..Len(local[m]) : row = Row(local[m][i]))
              = Rows(results[m])
    /\ (\E m \in Monitors : pc[m] \in {"run", "done"}) =>
          /\ log_exists
          /\ Len(log) >= 1
          /\ log[1] = HEADER
          /\ Cardinality({i \in 1..Len(log) : log[i] = HEADER}) = 1

\* The environment's answer to the full download completed: the GET was
\* answered, the body was read and written, the file was hashed.
DownloadCompleted == call.dl.get.kind = "response" /\ call.dl.disk = "ok"

\* The text of the exception the answer to the full download stands for.
\* (An empty text where no exception is raised.)
DownloadError ==
    IF call.dl.get.kind # "response" THEN ExcText(call.dl.get)
    ELSE CASE call.dl.disk = "open_fail" ->
                 "[Errno 13] Permission denied: " \o call.output_dir \o "/"
                     \o FileStamp(call.t) \o "-"
                     \o (IF Basename(call.url) = "" THEN call.file_type \o "_file"
                         ELSE Basename(call.url))
           [] call.dl.disk = "read_oserror" -> "timed out"
           [] call.dl.disk = "read_incomplete" -> "IncompleteRead"
           [] call.dl.disk = "write_fail" -> "[Errno 28] No space left on device"
           [] OTHER -> ""

\* C26: the full download always returns a record and never raises: 'ok'
\* exactly when the GET, the write and the hash all completed, and for an
\* exception raised by the request, the reading of the body or the write, a
\* record with status 'fail', code '000' and the exception's text as note.
C26_DownloadAlwaysReturnsRecord ==
    (call.fn = "_download_file" /\ SentFull(fx.requests)) =>
        /\ ~ret.raised
        /\ Len(Record) = 2
        /\ Record[2].status = "ok" <=> DownloadCompleted
        /\ (~DownloadCompleted /\ call.dl.disk # "hash_fail") =>
              /\ Record[2].status = "fail"
              /\ Record[2].http_code_or_port = "000"
              /\ Record[2].note = DownloadError

\* The answers of _parse_ocsp_response to the texts.
ParsedAs ==
    [response \in ResponseTexts |->
        CASE response = "Response verify OK\n    Cert Status: good\n    This Update: Jan  1 00:00:00 2025 GMT\n" -> "good"
          [] response = "Cert Status: good Cert Status: revoked" -> "good"
          [] response = "Cert Status: good\nCert Status: revoked\n" -> "revoked"
          [] response = "Cert Status:" -> ""
          [] response = "Cert Status: revoked Revocation Time: Jan  1 00:00:00 2024 GMT" ->
                "revoked Revocation Time: Jan  1 00:00:00 2024 GMT"
          [] response = "    Cert Status: revoked\n    Revocation Reason: keyCompromise\n    Revocation Time: Jan  1 00:00:00 2024 GMT" ->
                "revoked, Revocation Time: Jan  1 00:00:00 2024 GMT, Reason: keyCompromise"
          [] OTHER -> "unknown"]

\* C27: _parse_ocsp_response returns a string for every text, the string
\* 'unknown' whenever no line of the text holds 'Cert Status:' (with or
\* without revocation lines); and an exchange that completed without a
\* status in its response gives an 'ok' record whose note starts with
\* 'unknown'.
C27_ParseIsTotal ==
    /\ call.fn = "_parse_ocsp_response" =>
          /\ ~ret.raised
          /\ Record = ParsedAs[call.response]
          /\ ~Contains(call.response, "Cert Status:") => Record = "unknown"
    /\ (/\ call.fn \in {"check_ocsp_by_serial", "_check_ocsp_status"}
        /\ call.x.kind = "exit0"
        /\ ~Has(call.x.stdout, "Cert Status:")) =>
          /\ ~ret.raised
          /\ Record.status = "ok"
          /\ Record.note = "unknown (serial: " \o call.serial \o ")"

\* Revocation lines without a status line: 'unknown'.
C27_Witness ==
    /\ call.fn = "_parse_ocsp_response"
    /\ ~Contains(call.response, "Cert Status:")
    /\ Contains(call.response, "Revocation Time:")
    /\ Contains(call.response, "Revocation Reason:")
    /\ Record = "unknown"

\* The categories whose block comes before that of category c.
Before(c) == CASE c = "pki" -> {} [] c = "ocsp" -> {"pki"} [] OTHER -> {"pki", "ocsp"}

\* C28: when the checker of a category raises, also after some of its
\* probes have completed, no record of that category is accumulated or
\* logged, and the earlier categories that did not fault keep all their
\* records in memory and in the log.
C28_NoRecordOfFaultedChecker ==
    \A c \in EachCategory :
        produced[c].state = "raised" =>
            /\ ResultsOf(c) = <<>>
            /\ RowsOf(c) = <<>>
            /\ \A c0 \in Before(c) : c0 \notin errors => FullyLogged(c0)

\* The artifact checker raised on a certificate URL after the PDF probes had
\* completed and left their file: nothing was accumulated or logged.
C28_Witness ==
    /\ produced["pki"].state = "raised"
    /\ call.fn = "_download_file"
    /\ call.file_type = "crt"
    /\ ret.raised
    /\ Added # {}
    /\ results = <<>>
    /\ log = <<HEADER>>

\* The name under which a download of the call made last saves its file.
SavedAs ==
    call.output_dir \o "/" \o FileStamp(call.t) \o "-"
        \o (IF Basename(call.url) = "" THEN call.file_type \o "_file" ELSE Basename(call.url))

\* C29: the artifact checker writes only names that carry the time stamp
\* and a dash before the base name, so it neither creates nor replaces nor
\* removes crt/ESTEID2025.crt; and the default self-check of a store
\* without that file, also one that holds a certificate just downloaded,
\* returns the 'CA certificate not found' record without starting openssl.
C29_DownloadsNeverProvideCaCert ==
    /\ call.fn = "_download_file" =>
          /\ \A p \in fx.written : p = SavedAs /\ FileStamp(call.t) # "" /\ p # CaCert
          /\ \A p \in DOMAIN call.store : p \in DOMAIN files
          /\ \A p \in DOMAIN files \ fx.written : p \in DOMAIN call.store /\ files[p] = call.store[p]
          /\ CaCert \in DOMAIN files <=> CaCert \in DOMAIN call.store
    /\ (call.fn = "_check_ocsp_status" /\ CaCert \notin DOMAIN call.store) =>
          /\ Record = Rec(call.ts, "ocsp_status", UrlStr(call.url), "fail", "000", "0", "",
                          "CA certificate not found: crt/ESTEID2025.crt")
          /\ fx.spawned = <<>>
          /\ fx.tmp_created = 0

\* The certificate was downloaded in this run, and the self-check still
\* finds no CA certificate.
C29_Witness ==
    /\ call.fn = "_check_ocsp_status"
    /\ ("crt/" \o FileStamp(0) \o "-ESTEID2025.crt") \in DOMAIN files
    /\ CaCert \notin DOMAIN files
    /\ Record.note = "CA certificate not found: crt/ESTEID2025.crt"
    /\ fx.spawned = <<>>

\* The call made last is an OCSP status query that created its temporary file.
CreatedTmp ==
    /\ call.fn \in {"check_ocsp_by_serial", "_check_ocsp_status"}
    /\ fx.tmp_created = 1

\* C30 as stated: on every path on which check_ocsp_by_serial creates its
\* temporary file, the file no longer exists when it returns, and it
\* returns a record.
C30_NoTmpLeftBehind ==
    CreatedTmp =>
        /\ ~ret.raised
        /\ tmpfiles = call.tmp

\* C30, amended: check_ocsp_by_serial returns a record on every path that
\* creates the temporary file (success, non-zero exit, timeout, any other
\* exception), and the file no longer exists then unless os.unlink itself
\* failed, in which case exactly that file is left.
C30_TmpRemovedUnlessUnlinkFails ==
    /\ call.fn \in {"check_ocsp_by_serial", "_check_ocsp_status"} =>
          /\ ~ret.raised
          /\ Record.status \in {"ok", "fail"}
          /\ fx.tmp_created = 0 => tmpfiles = call.tmp
    /\ CreatedTmp =>
          /\ call.x.unlink = "removed" => tmpfiles = call.tmp
          /\ call.x.unlink # "removed" => tmpfiles = call.tmp \cup {NewTmp(call.tmp)}

\* openssl timed out: a 'fail' record, and the temporary file is gone.
C30_Witness ==
    /\ call.fn = "check_ocsp_by_serial"
    /\ call.x.kind = "TimeoutExpired"
    /\ call.x.unlink = "removed"
    /\ fx.tmp_created = 1
    /\ Record.note = "Request timeout"
    /\ tmpfiles = {}

====
